---------------------------- MODULE Spec2Model ----------------------------
(***************************************************************************)
(* ROI statistics engine of 2024-RP-3E-RHEED: the statistic cache          *)
(* (gui/roi_data_cache.py), the computation scheduler with its worker      *)
(* pool (gui/roi_computation_engine.py) and the calls the statistics       *)
(* window (gui/statswindow.py) makes on them from the GUI thread.          *)
(*                                                                         *)
(* Three kinds of process take steps: the GUI thread (one API call per     *)
(* step, stop() in four steps because it blocks the GUI thread while the   *)
(* other threads run), the dispatch thread (ROIComputationEngine.run, one  *)
(* step per read of a shared variable) and the pool's workers (one step    *)
(* per ROIComputationWorker.run).                                          *)
(***************************************************************************)
EXTENDS Integers, Sequences, FiniteSets, Bags, TLC

\* ------------------------------------------------------------- bounds
\* Longest dataset (frames along the first axis).
MaxFrames == 3
\* Frames per chunk: self.chunk_size, scaled down from 100 so that a job
\* of MaxFrames frames needs more than one chunk.
ChunkSize == 2
\* Calls the GUI thread makes in one behaviour, and of each kind.
MaxOps == 4
MaxSetDataset == 2
MaxRemoveRoi == 1
MaxCurrentFrame == 1
MaxPause == 1
MaxStop == 2
\* Jobs one channel holds at a time.
MaxQueue == 2
\* Changes of an ROI's geometry, and calls of updateCurrentFrame.
MaxMoves == 1
MaxUpdateFrame == 1
\* Calls made on the cache alone in one behaviour; the largest frame index
\* and frame count they pass; the longest live log.
MaxCacheCalls == 6
MaxIndex == 2
MaxLive == 2
\* Rows and columns of the square frame statistics are taken over.
FrameSide == 10
\* Positions and sizes are multiples of 1/Scale pixel.
Scale == 4
\* Largest coordinate of an end point of a line, in pixels.
MaxEndpoint == 4

\* ------------------------------------------------------------- inputs
ROIs == {"A", "B"}

\* The calls the GUI thread makes.
Kinds == {"SetDataset", "AddRoi", "RemoveRoi", "QueueCurrentFrame", "Pause", "Resume",
          "Stop", "MoveRoi", "UpdateCurrentFrame", "SetLiveMode"}

\* A dataset handle: id 0 is None; otherwise an array of ndim axes whose first
\* axis (shape[0]) has length n: the frames of a 3-D stack, the rows of a 2-D
\* image.
NoDataset == [id |-> 0, ndim |-> 0, n |-> 0]
Stack == [id |-> 1, ndim |-> 3, n |-> MaxFrames]
Still == [id |-> 2, ndim |-> 2, n |-> 2]
Short == [id |-> 3, ndim |-> 3, n |-> MaxFrames - 1]
Datasets == {Stack, Still, Short}

\* get_mean's "not computed yet".
None == -1

Max(a, b) == IF a >= b THEN a ELSE b
Min(a, b) == IF a <= b THEN a ELSE b

Zeros(n) == [k \in 1..n |-> 0]

\* The ascending sequence of a finite set of integers: sorted(...).
RECURSIVE Sorted(_)
Sorted(S) ==
    IF S = {} THEN << >>
    ELSE LET m == CHOOSE x \in S : \A y \in S : x <= y
         IN  <<m>> \o Sorted(S \ {m})

\* roi_list of a priority job: the tracked names in the table's order.
RoiList(S) == (IF "A" \in S THEN <<"A">> ELSE << >>) \o
              (IF "B" \in S THEN <<"B">> ELSE << >>)

\* The frame data of frame f of dataset d: dataset[f].
FrameOf(d, f) == <<d.id, f>>

\* What the slicing of frame f gives: dataset[f] of a 3-D handle (an IndexError
\* beyond its frames, NoFrame here), the image itself of a 2-D handle.
NoFrame == << >>
FrameData(d, f) ==
    IF d.ndim = 3 THEN (IF f < d.n THEN FrameOf(d, f) ELSE NoFrame)
    ELSE IF d.ndim = 2 THEN FrameOf(d, 0)
    ELSE NoFrame

\* A frame the camera hands over in live preview.
LiveFrame == <<4, 0>>

\* Every frame a job or a worker can hold.
Frames == {FrameOf(d, f) : d \in Datasets, f \in 0..(MaxFrames - 1)}

RoiGain(r) == IF r = "A" THEN 1 ELSE 2

\* The mean of the pixels the ROI r selects on frame data x when its geometry
\* is g: a value that tells the geometry, the ROI, the dataset and the frame
\* apart.
Statistic(g, r, x) == 1000 * g + 100 * RoiGain(r) + 10 * x[1] + x[2]

\* np.float32 of an integer-valued double: 24 bits of significand, ties to even.
Float32Bits == 24
RECURSIVE Ulp(_, _)
Ulp(v, u) == IF v < u * (2 ^ Float32Bits) THEN u ELSE Ulp(v, 2 * u)
float32(v) ==
    LET u == Ulp(v, 1)
        q == v \div u
        rem == v % u
    IN  IF 2 * rem < u THEN q * u
        ELSE IF 2 * rem > u THEN (q + 1) * u
        ELSE IF q % 2 = 0 THEN q * u ELSE (q + 1) * u

\* The first integer float32 cannot hold, and the means a caller writes: one
\* float32 holds and one it does not.
Inexact == 2 ^ Float32Bits + 1
Means == {7, Inexact}

\* float(x) of a float32: every float32 is a double.
float(x) == x

\* ------------------------------------------------------ cache variants
\* Other ways the cache could have been written, each of which the properties
\* at the end of the module tell from the cache as it is.
\* A write beyond the end of the array is dropped instead of growing it.
StoreMeanInPlace(e, f, v) ==
    IF f >= Len(e.means) THEN e
    ELSE [e EXCEPT !.means[f + 1] = float32(v), !.computed = @ \cup {f}]
\* Shrinking cuts the array and keeps the flags of the frames cut off.
ResizeKeepsFlags(e, n) ==
    [e EXCEPT !.means = IF n > Len(@) THEN @ \o Zeros(n - Len(@)) ELSE SubSeq(@, 1, n),
              !.total = n]
\* Resizing leaves total_frames as it was.
ResizeLeavesTotal(e, n) ==
    [e EXCEPT !.means = IF n > Len(@) THEN @ \o Zeros(n - Len(@)) ELSE SubSeq(@, 1, n),
              !.computed = {f \in @ : f < n}]
\* append_live_mean putting the newest mean first
AppendLiveFirst(live, r, v, t) ==
    IF r \notin DOMAIN live THEN live
    ELSE [live EXCEPT ![r].means = <<v>> \o @, ![r].timestamps = <<t>> \o @]

\* remove_roi without its `del self._live_data[roi_name]`
RemoveKeepsLive(live, r) == live

\* Invalidation also zeroes the stored values.
InvalidateZeroes(data, r) ==
    IF r \notin DOMAIN data THEN data
    ELSE [data EXCEPT ![r].computed = {}, ![r].means = Zeros(Len(@))]

\* ------------------------------------------------------- ROIDataCache
\* self._data: a function from the tracked names to their entries.

NewEntry(total) == [means |-> Zeros(total), computed |-> {}, total |-> total]

add_roi(data, r, total) ==
    [x \in DOMAIN data \cup {r} |-> IF x = r THEN NewEntry(total) ELSE data[x]]

remove_roi(data, r) == [x \in DOMAIN data \ {r} |-> data[x]]

has_roi(data, r) == r \in DOMAIN data

\* The entry after the write of v at frame f (f >= 0), grown when needed.
StoreMean(e, f, v) ==
    LET new_size == Max(f + 1, e.total)
        grown == IF f >= Len(e.means)
                 THEN [e EXCEPT !.means = e.means \o Zeros(new_size - Len(e.means)),
                                !.total = new_size]
                 ELSE e
    IN  [grown EXCEPT !.means[f + 1] = float32(v), !.computed = @ \cup {f}]

set_mean(data, r, f, v) ==
    IF r \notin DOMAIN data THEN data
    ELSE [data EXCEPT ![r] = StoreMean(data[r], f, v)]

get_mean(data, r, f) ==
    IF r \notin DOMAIN data THEN None
    ELSE IF f \notin data[r].computed THEN None
    ELSE IF f >= Len(data[r].means) THEN None
    ELSE float(data[r].means[f + 1])

\* <<frames, means>>: the computed indices ascending, and their values.
get_all_means(data, r) ==
    IF r \notin DOMAIN data THEN << << >>, << >> >>
    ELSE IF data[r].computed = {} THEN << << >>, << >> >>
    ELSE LET frames == Sorted(data[r].computed)
         IN  <<frames, [k \in 1..Len(frames) |-> data[r].means[frames[k] + 1]]>>

get_progress(data, r) ==
    IF r \notin DOMAIN data THEN <<0, 0>>
    ELSE <<Cardinality(data[r].computed), data[r].total>>

ResizeEntry(e, n) ==
    LET old_size == Len(e.means)
        sized == IF n > old_size
                 THEN [e EXCEPT !.means = e.means \o Zeros(n - old_size)]
                 ELSE IF n < old_size
                 THEN [e EXCEPT !.means = SubSeq(e.means, 1, n),
                                !.computed = {f \in e.computed : f < n}]
                 ELSE e
    IN  [sized EXCEPT !.total = n]

resize_dataset(data, n) == [x \in DOMAIN data |-> ResizeEntry(data[x], n)]

update_roi_geometry(data, r) ==
    IF r \notin DOMAIN data THEN data
    ELSE [data EXCEPT ![r].computed = {}]

\* self._live_data: a function from the tracked names to their live logs, the
\* means and the timestamps of the frames appended.
NewLive == [means |-> << >>, timestamps |-> << >>]
add_live(live, r) == [x \in DOMAIN live \cup {r} |-> IF x = r THEN NewLive ELSE live[x]]
remove_live(live, r) == [x \in DOMAIN live \ {r} |-> live[x]]

\* append_live_mean at time t: the logs, and _live_frame_counter, after it.
append_live_mean(live, r, v, t) ==
    IF r \notin DOMAIN live THEN live
    ELSE [live EXCEPT ![r].means = Append(@, v), ![r].timestamps = Append(@, t)]

append_live_counter(counter, live, r) ==
    IF r \notin DOMAIN live THEN counter
    ELSE LET current_len == Len(live[r].means) + 1
         IN  IF current_len > counter THEN current_len ELSE counter

\* <<frames, means>>: the indices 0..n-1 and the means as a float32 array.
get_live_means(live, r) ==
    IF r \notin DOMAIN live THEN << << >>, << >> >>
    ELSE IF Len(live[r].means) = 0 THEN << << >>, << >> >>
    ELSE <<[k \in 1..Len(live[r].means) |-> k - 1],
           [k \in 1..Len(live[r].means) |-> float32(live[r].means[k])]>>

has_live_data(live) == \E r \in DOMAIN live : Len(live[r].means) > 0

clear_live_data(live) == [x \in DOMAIN live |-> NewLive]

\* clear_all: self._data.clear()
clear_all(data) == << >>

\* _live_frame_counter after set_live_mode(active)
set_live_mode_counter(counter, was_active, active) ==
    IF active /\ ~was_active THEN 0 ELSE counter


\* ------------------------------------------------------------- variants
\* Other ways the engine could have been written, each of which the properties
\* at the end of the module tell from the engine as it is.
\* The chunk loop does not look at the priority channel.
NeverPreempted(q) == FALSE
\* A job that yields is not put back.
RequeueDropped(q, task) == q
\* After a priority job the iteration goes on to the bulk channel.
AfterPriorityTaskFallsThrough == "get_bulk"
\* The priority channel is not served while the engine is paused.
PriorityReadyUnlessPaused(q, p) == q # << >> /\ ~p
\* stop() clears the pool instead of waiting for it.
ClearPool(p) == EmptyBag
\* The dataset check is left out.
DatasetNeverMissing(d) == FALSE
\* The frame count is the length of the first axis, whatever the handle.
FirstAxis(d) == d.n
\* The frames to compute are those whose stored value is still zero.
FramesNotStored(d, task) ==
    Sorted({f \in 0..(task.total - 1) :
              task.roi \notin DOMAIN d \/ f >= Len(d[task.roi].means)
                                        \/ d[task.roi].means[f + 1] = 0})
\* Every frame of the job, stored or not.
FramesAll(d, task) == Sorted(0..(task.total - 1))
\* The frames without a value, the last one first.
FramesLastFirst(d, task) ==
    LET up == Sorted({f \in 0..(task.total - 1) : get_mean(d, task.roi, f) = None})
    IN  [k \in 1..Len(up) |-> up[Len(up) + 1 - k]]

\* ------------------------------------------------------- ROIMaskUtils
\* Positions, sizes and radii are multiples of 1/Scale pixel and are kept as
\* integers: q stands for q / Scale, and Px(n) for n whole pixels.
Px(n) == n * Scale

\* An array: its axes, and for a frame its rows and columns.  frame_data[y, x]
\* of a frame is Pixel(f, x, y), never 0 and different at every pixel.
Array(ndim, height, width) == [ndim |-> ndim, height |-> height, width |-> width]
NoArray == Array(0, 0, 0)
EmptyArray == Array(2, 0, 0)
Frame == Array(2, FrameSide, FrameSide)
Wide == Array(2, 2, 3)
Colour == Array(3, 2, 2)
Pixel(f, x, y) == 1 + x + f.width * y

\* A statistic: the fraction num/den in lowest terms, or an exception on its
\* way up.  NotComputed is no statistic.
Value(num, den) == [exc |-> FALSE, num |-> num, den |-> den]
Zero == Value(0, 1)
Exception == [exc |-> TRUE, num |-> 0, den |-> 1]
NotComputed == [exc |-> FALSE, num |-> 0, den |-> 0]

RECURSIVE GCD(_, _)
GCD(a, b) == IF b = 0 THEN a ELSE GCD(b, a % b)
Fraction(num, den) == Value(num \div GCD(num, den), den \div GCD(num, den))

RECURSIVE SumPixels(_, _)
SumPixels(f, S) ==
    IF S = {} THEN 0
    ELSE LET p == CHOOSE q \in S : TRUE
         IN  Pixel(f, p[1], p[2]) + SumPixels(f, S \ {p})

\* float(np.mean(frame_data[mask])), the mask a set of <<x, y>>
MeanOver(f, mask) == Fraction(SumPixels(f, mask), Cardinality(mask))

\* np.ogrid[0:height, 0:width]
Grid(height, width) == (0..(width - 1)) \X (0..(height - 1))

\* int(): towards zero
int(q) == IF q >= 0 THEN q \div Scale ELSE -((-q) \div Scale)

\* A silx ROI object: its kind and what its getters give: (x, y) the position,
\* origin or centre, (a, b) the size, or a the radius, or the major and minor
\* or inner and outer radii, points the vertices.
Roi(kind, x, y, a, b, points) ==
    [kind |-> kind, x |-> x, y |-> y, a |-> a, b |-> b, points |-> points]
NoRoi == Roi("None", 0, 0, 0, 0, << >>)

\* abs()
Abs(n) == IF n >= 0 THEN n ELSE -n

\* Other ways the masks could have been written.
\* A line that runs along x first and then along y.
LineAlongXFirst(x0, y0, x1, y1) ==
    LET dx == Abs(x1 - x0)
        dy == Abs(y1 - y0)
        sx == IF x0 < x1 THEN 1 ELSE -1
        sy == IF y0 < y1 THEN 1 ELSE -1
    IN  [returns |-> TRUE,
         coords |-> [k \in 1..(dx + 1) |-> <<x0 + sx * (k - 1), y0>>]
                      \o [k \in 1..dy |-> <<x1, y0 + sy * k>>]]
\* A rectangle that takes its far edges in.
RectangleClosed(roi, height, width) ==
    {p \in Grid(height, width) :
        /\ Px(p[1]) >= roi.x /\ Px(p[1]) <= roi.x + roi.a
        /\ Px(p[2]) >= roi.y /\ Px(p[2]) <= roi.y + roi.b}
\* A circle without its boundary.
CircleOpen(roi, height, width) ==
    IF roi.a <= 0 THEN {}
    ELSE {p \in Grid(height, width) :
            (Px(p[1]) - roi.x) * (Px(p[1]) - roi.x)
              + (Px(p[2]) - roi.y) * (Px(p[2]) - roi.y) < roi.a * roi.a}

\* _compute_point_mean
compute_point_mean(roi, f) ==
    IF f.ndim # 2 THEN Exception
    ELSE LET x == roi.x
             y == roi.y
         IN  IF 0 <= int(y) /\ int(y) < f.height /\ 0 <= int(x) /\ int(x) < f.width
             THEN Value(Pixel(f, int(x), int(y)), 1)
             ELSE Zero

\* _compute_horizontal_line_mean, the position in y
compute_horizontal_line_mean(roi, f) ==
    IF f.ndim # 2 THEN Exception
    ELSE LET y == int(roi.y)
         IN  IF 0 <= y /\ y < f.height
             THEN MeanOver(f, {p \in Grid(f.height, f.width) : p[2] = y})
             ELSE Zero

\* _compute_vertical_line_mean, the position in x
compute_vertical_line_mean(roi, f) ==
    IF f.ndim # 2 THEN Exception
    ELSE LET x == int(roi.x)
         IN  IF 0 <= x /\ x < f.width
             THEN MeanOver(f, {p \in Grid(f.height, f.width) : p[1] = x})
             ELSE Zero

\* _create_rectangle_mask
create_rectangle_mask(roi, height, width) ==
    LET x0 == roi.x
        y0 == roi.y
        w == roi.a
        h == roi.b
    IN  {p \in Grid(height, width) :
            /\ Px(p[1]) >= x0 /\ Px(p[1]) < x0 + w
            /\ Px(p[2]) >= y0 /\ Px(p[2]) < y0 + h}

\* _create_circle_mask
create_circle_mask(roi, height, width) ==
    LET cx == roi.x
        cy == roi.y
        radius == roi.a
    IN  IF radius <= 0 THEN {}
        ELSE {p \in Grid(height, width) :
                (Px(p[1]) - cx) * (Px(p[1]) - cx) + (Px(p[2]) - cy) * (Px(p[2]) - cy)
                    <= radius * radius}

\* _create_ellipse_mask, the orientation 0
create_ellipse_mask(roi, height, width) ==
    LET cx == roi.x
        cy == roi.y
        major == roi.a
        minor == roi.b
    IN  IF major <= 0 \/ minor <= 0 THEN {}
        ELSE {p \in Grid(height, width) :
                (Px(p[1]) - cx) * (Px(p[1]) - cx) * minor * minor
                  + (Px(p[2]) - cy) * (Px(p[2]) - cy) * major * major
                    <= major * major * minor * minor}

\* matplotlib.path.Path(points).contains_points: the pixels an odd number of
\* the polygon's edges lie to the right of.
EdgeToTheRight(a, b, p) ==
    /\ (a[2] > Px(p[2])) # (b[2] > Px(p[2]))
    /\ IF b[2] > a[2]
       THEN (Px(p[1]) - a[1]) * (b[2] - a[2]) < (Px(p[2]) - a[2]) * (b[1] - a[1])
       ELSE (Px(p[1]) - a[1]) * (b[2] - a[2]) > (Px(p[2]) - a[2]) * (b[1] - a[1])
contains_points(points, p) ==
    Cardinality({k \in 1..Len(points) :
        EdgeToTheRight(points[k], points[(k % Len(points)) + 1], p)}) % 2 = 1

\* _create_polygon_mask
create_polygon_mask(roi, height, width) ==
    IF Len(roi.points) < 3 THEN {}
    ELSE {p \in Grid(height, width) : contains_points(roi.points, p)}

\* _create_arc_mask
create_arc_mask(roi, height, width) ==
    LET cx == roi.x
        cy == roi.y
    IN  {p \in Grid(height, width) :
            LET dist_sq == (Px(p[1]) - cx) * (Px(p[1]) - cx)
                             + (Px(p[2]) - cy) * (Px(p[2]) - cy)
            IN  /\ dist_sq >= roi.a * roi.a
                /\ dist_sq <= roi.b * roi.b}

\* _compute_mask_mean
ShapeMask(roi, height, width) ==
    CASE roi.kind = "Rectangle" -> create_rectangle_mask(roi, height, width)
      [] roi.kind = "Circle" -> create_circle_mask(roi, height, width)
      [] roi.kind = "Ellipse" -> create_ellipse_mask(roi, height, width)
      [] roi.kind = "Polygon" -> create_polygon_mask(roi, height, width)
      [] roi.kind = "Arc" -> create_arc_mask(roi, height, width)

compute_mask_mean(roi, f) ==
    IF f.ndim # 2 THEN Exception
    ELSE LET mask == ShapeMask(roi, f.height, f.width)
         IN  IF Cardinality(mask) = 0 THEN Zero ELSE MeanOver(f, mask)

\* _bresenham_line: the turns of its `while True` from (x, y) with err, coords
\* the points appended so far.  The loop is followed for at most fuel turns:
\* returns tells whether it reached its break.
RECURSIVE BresenhamLoop(_, _, _)
BresenhamLoop(line, at, fuel) ==
    LET coords == Append(at.coords, <<at.x, at.y>>)
    IN  IF at.x = line.x1 /\ at.y = line.y1 THEN [returns |-> TRUE, coords |-> coords]
        ELSE IF fuel = 0 THEN [returns |-> FALSE, coords |-> coords]
        ELSE LET e2 == 2 * at.err
                 err == IF e2 > -line.dy THEN at.err - line.dy ELSE at.err
                 x == IF e2 > -line.dy THEN at.x + line.sx ELSE at.x
                 err2 == IF e2 < line.dx THEN err + line.dx ELSE err
                 y == IF e2 < line.dx THEN at.y + line.sy ELSE at.y
             IN  BresenhamLoop(line, [x |-> x, y |-> y, err |-> err2, coords |-> coords],
                               fuel - 1)

\* _bresenham_line(x0, y0, x1, y1)
bresenham_line(x0, y0, x1, y1) ==
    LET dx == Abs(x1 - x0)
        dy == Abs(y1 - y0)
        sx == IF x0 < x1 THEN 1 ELSE -1
        sy == IF y0 < y1 THEN 1 ELSE -1
    IN  BresenhamLoop([x1 |-> x1, y1 |-> y1, dx |-> dx, dy |-> dy, sx |-> sx, sy |-> sy],
                      [x |-> x0, y |-> y0, err |-> dx - dy, coords |-> << >>],
                      2 * (dx + dy) + 2)

RECURSIVE SumValues(_, _)
SumValues(f, coords) ==
    IF coords = << >> THEN 0
    ELSE Pixel(f, Head(coords)[1], Head(coords)[2]) + SumValues(f, Tail(coords))

\* _compute_line_mean, (x, y) the start and (a, b) the end of the line.  A loop
\* that does not return leaves no statistic.
compute_line_mean(roi, f) ==
    LET line == bresenham_line(int(roi.x), int(roi.y), int(roi.a), int(roi.b))
        valid_coords == SelectSeq(line.coords,
                            LAMBDA p : 0 <= p[2] /\ p[2] < f.height
                                         /\ 0 <= p[1] /\ p[1] < f.width)
    IN  IF ~line.returns THEN NotComputed
        ELSE IF f.ndim # 2 THEN Exception
        ELSE IF Len(valid_coords) = 0 THEN Zero
        ELSE Fraction(SumValues(f, valid_coords), Len(valid_coords))

\* The body of the try of compute_mean_for_roi: the kinds of ROI it tells apart.
MeanByKind(roi, f) ==
    CASE roi.kind \in {"Point", "Cross"} -> compute_point_mean(roi, f)
      [] roi.kind = "Line" -> compute_line_mean(roi, f)
      [] roi.kind = "HorizontalLine" -> compute_horizontal_line_mean(roi, f)
      [] roi.kind = "VerticalLine" -> compute_vertical_line_mean(roi, f)
      [] roi.kind \in {"Rectangle", "Circle", "Ellipse", "Polygon", "Arc"} ->
            compute_mask_mean(roi, f)
      [] OTHER -> Zero

\* except Exception: return 0.0
Caught(v) == IF v.exc THEN Zero ELSE v

\* ROIMaskUtils.compute_mean_for_roi(roi, frame_data)
mean_for_roi(roi, f) ==
    IF f = NoArray \/ (f.ndim = 2 /\ f.height * f.width = 0) THEN Zero
    ELSE Caught(MeanByKind(roi, f))

\* The ROIs and the arrays compute_mean_for_roi is given.
PointInputs ==
    {Roi(kind, x, y, 0, 0, << >>) :
        kind \in {"Point", "Cross"},
        x \in (-(Scale + 1))..(Px(3) + 1) \cup {Px(50)},
        y \in {-(Scale + 1), -1, 0, Scale - 1, Scale + 1, Px(2), Px(50)}}
RectangleInputs ==
    {Roi("Rectangle", x0, y0, w, h, << >>) :
        x0 \in {-Scale, -1, 0, 1, Px(2)}, y0 \in {-Scale, 0, 1, Px(2)},
        w \in {-Scale, 0, 1, Scale, Px(3), Px(20)}, h \in {0, 1, Px(3), Px(20)}}
CircleInputs ==
    {Roi("Circle", cx, cy, r, 0, << >>) :
        cx \in {-Scale, 0, Scale + 1, Px(5), Px(9)}, cy \in {0, Px(5), Px(9) + 1},
        r \in {-Scale, 0, 1, Scale, Px(2), Px(2) + 1}}
EllipseInputs ==
    {Roi("Ellipse", Px(5), Px(5), a, b, << >>) :
        a \in {-Scale, 0, Scale, Px(2)}, b \in {-Scale, 0, Scale, Px(2)}}
PolygonInputs ==
    {Roi("Polygon", 0, 0, 0, 0, points) :
        points \in { << >>, << <<0, 0>> >>, << <<0, 0>>, <<Px(4), Px(4)>> >>,
                     << <<0, 0>>, <<Px(4) + 1, 0>>, <<0, Px(4) + 1>> >> }}
LineInputs ==
    {Roi(kind, q, q, 0, 0, << >>) :
        kind \in {"HorizontalLine", "VerticalLine"},
        q \in {-Scale, -1, 0, Scale + 1, Px(50)}}
SegmentInputs ==
    {Roi("Line", Px(x0), Px(y0), Px(x1), Px(y1), << >>) :
        x0 \in (-1)..MaxEndpoint, y0 \in (-1)..MaxEndpoint,
        x1 \in (-1)..MaxEndpoint, y1 \in (-1)..MaxEndpoint}
OtherInputs ==
    {Roi("Arc", Px(5), Px(5), Scale, Px(2), << >>), Roi("Text", 0, 0, 0, 0, << >>)}
RoiInputs ==
    PointInputs \cup RectangleInputs \cup CircleInputs \cup EllipseInputs
        \cup PolygonInputs \cup LineInputs \cup SegmentInputs \cup OtherInputs
FrameInputs == {Frame, Wide, EmptyArray, NoArray, Colour}

\* ---------------------------------------------------------------- state
VARIABLES
    data,            \* ROIDataCache._data
    dataset,         \* ROIComputationEngine.dataset
    task_queue,      \* the bulk channel
    priority_queue,  \* the priority channel
    running,         \* _running
    paused,          \* _paused
    pending,         \* _pending_workers
    pool,            \* the workers started on the thread pool and not yet run (a bag)
    pc,              \* where the dispatch thread is in run / _process_bulk_task
    cur,             \* the bulk task _process_bulk_task was last called with
    todo,            \* frames_to_compute of that call
    ci,              \* i of the chunk loop: the offset of the chunk in todo
    cj,              \* frames of the chunk the inner loop has gone through
    gui,             \* where the GUI thread is: idle, or inside stop()
    ops,             \* calls the GUI thread has made, by kind
    stops,           \* stop() calls that have returned
    nfail,           \* workers whose computation raised
    disturbed,       \* names whose entry was removed, resized or invalidated
    emitted,         \* the signals the last step emitted
    did,             \* the last step
    live_data,       \* ROIDataCache._live_data: the live log of each name
    live_frame_counter, \* ROIDataCache._live_frame_counter
    live_mode_active,   \* ROIDataCache._live_mode_active
    geometry,        \* the geometry each ROI object has now (a version count)
    current_frame_index, \* roiStatsWindow._current_frame_index
    call,            \* the last call made on the cache alone, with its arguments
    roi_arg,         \* compute_mean_for_roi: the ROI object passed as roi
    frame_arg,       \* compute_mean_for_roi: the array passed as frame_data
    mean_value       \* ROIComputationWorker.run: what compute_mean_for_roi gave

vars == <<data, dataset, task_queue, priority_queue, running, paused, pending,
          pool, pc, cur, todo, ci, cj, gui, ops, stops,
          nfail, disturbed, emitted, did,
          live_data, live_frame_counter, live_mode_active,
          geometry, current_frame_index, call,
          roi_arg, frame_arg, mean_value>>

statVars == <<roi_arg, frame_arg, mean_value>>
liveVars == <<live_frame_counter, live_mode_active>>
cacheVars == <<data, disturbed, live_data, liveVars>>
faceVars == <<geometry, current_frame_index, call>>
queueVars == <<task_queue, priority_queue>>
bulkVars == <<cur, todo, ci, cj>>
guiVars == <<gui, ops, stops>>

\* Workers whose computation may raise in one behaviour.
MaxFail == 1
MaxSetLiveMode == 2

\* ROIMaskUtils.compute_mean_for_roi(roi, frame_data): the getters of the ROI
\* object give the geometry it has when they are called.
compute_mean_for_roi(r, x) == Statistic(geometry[r], r, x)

\* ------------------------------------------------------------ signals
Signal(sig, r, x, y) == [sig |-> sig, roi |-> r, x |-> x, y |-> y]
currentFrameReady(r, mean) == Signal("currentFrameReady", r, mean, 0)
bulkProgressUpdated(r, done, total) == Signal("bulkProgressUpdated", r, done, total)
bulkAnalysisComplete(r) == Signal("bulkAnalysisComplete", r, 0, 0)
errorOccurred(r) == Signal("errorOccurred", r, 0, 0)

\* --------------------------------------------------------------- jobs
BulkTask(r, total) == [roi |-> r, total |-> total]
PriorityTask(f, x, rois) == [frame |-> f, frame_data |-> x, roi_list |-> rois]
NoTask == BulkTask("", 0)

\* A worker: what ROIComputationWorker.__init__ keeps, and in val the mean its
\* run() has computed and not yet stored (None before that).
Worker(r, f, x, prio) ==
    [roi |-> r, frame |-> f, frame_data |-> x, prio |-> prio, val |-> None]

\* thread_pool.start(worker) and the pool letting go of a worker that ran.
Start(p, w) == p (+) SetToBag({w})
Leave(p, w) == p (-) SetToBag({w})

RECURSIVE StartAll(_, _)
StartAll(p, ws) == IF ws = << >> THEN p ELSE StartAll(Start(p, Head(ws)), Tail(ws))

\* thread_pool.activeThreadCount() > 0
Active(p) == BagToSet(p) # {}

NoCall == [op |-> "", roi |-> "", frame |-> 0, value |-> 0, n |-> 0, before |-> << >>,
           live_before |-> << >>]

\* The cache, the engine and the window as their constructors leave them.
Constructed ==
    /\ data = << >>
    /\ live_data = << >>
    /\ live_frame_counter = 0
    /\ live_mode_active = FALSE
    /\ geometry = [r \in ROIs |-> 0]
    /\ current_frame_index = 0
    /\ call = NoCall
    /\ dataset = NoDataset
    /\ task_queue = << >>
    /\ priority_queue = << >>
    /\ running = TRUE
    /\ paused = FALSE
    /\ pending = 0
    /\ pool = EmptyBag
    /\ pc = "poll"
    /\ cur = NoTask
    /\ todo = << >>
    /\ ci = 0
    /\ cj = 0
    /\ gui = "idle"
    /\ ops = [k \in Kinds |-> 0]
    /\ stops = 0
    /\ nfail = 0
    /\ disturbed = {}
    /\ emitted = << >>
    /\ did = "init"

\* No statistic is being computed apart from the engine's workers.
Init ==
    /\ Constructed
    /\ roi_arg = NoRoi
    /\ frame_arg = NoArray
    /\ mean_value = NotComputed

\* ------------------------------------------------------ the GUI thread
\* The GUI thread is free to make a call.  stop() is what cleanup() calls as the
\* window closes: no other call follows it.
Limit(k) ==
    CASE k = "SetDataset" -> MaxSetDataset
      [] k = "AddRoi" -> Cardinality(ROIs)
      [] k = "RemoveRoi" -> MaxRemoveRoi
      [] k = "QueueCurrentFrame" -> MaxCurrentFrame
      [] k = "Pause" -> MaxPause
      [] k = "Resume" -> MaxPause
      [] k = "Stop" -> MaxStop
      [] k = "MoveRoi" -> MaxMoves
      [] k = "UpdateCurrentFrame" -> MaxUpdateFrame
      [] k = "SetLiveMode" -> MaxSetLiveMode

RECURSIVE Sum(_, _)
Sum(f, S) == IF S = {} THEN 0
             ELSE LET k == CHOOSE x \in S : TRUE IN f[k] + Sum(f, S \ {k})

GuiIdle(k) == gui = "idle" /\ Sum(ops, Kinds) < MaxOps /\ ops[k] < Limit(k)
GuiCall(k) == GuiIdle(k) /\ running
Called(k) == [ops EXCEPT ![k] = @ + 1]

\* The frame count the statistics window takes from a handle.
TotalFrames(d) == IF d.ndim = 3 THEN d.n ELSE IF d.ndim = 2 THEN 1 ELSE 0

RECURSIVE BulkTasks(_, _)
BulkTasks(rois, total) ==
    IF rois = << >> THEN << >>
    ELSE <<BulkTask(Head(rois), total)>> \o BulkTasks(Tail(rois), total)

\* roiStatsWindow.setDataset outside live mode, or with None: the prompt for
\* live data and its early return are not taken.  live_mode_active stands for
\* roiStatsWindow._is_live_mode too: setLiveMode assigns the two together.
SetDataset(d) ==
    /\ GuiCall("SetDataset")
    /\ ~(live_mode_active /\ d # NoDataset)
    /\ d # dataset
    /\ Len(task_queue) + Cardinality(DOMAIN data) <= MaxQueue
    /\ dataset' = d
    /\ data' = resize_dataset(data, TotalFrames(d))
    /\ disturbed' = disturbed \cup DOMAIN data
    /\ task_queue' = task_queue \o BulkTasks(RoiList(DOMAIN data), TotalFrames(d))
    /\ ops' = Called("SetDataset")
    /\ emitted' = << >>
    /\ did' = "SetDataset"
    /\ UNCHANGED <<priority_queue, running, paused, pending, pool, pc, bulkVars, gui, stops,
                   nfail, live_data, liveVars, statVars, faceVars>>

\* roiStatsWindow.setLiveMode
SetLiveMode(active) ==
    /\ GuiCall("SetLiveMode")
    /\ live_frame_counter' = set_live_mode_counter(live_frame_counter, live_mode_active, active)
    /\ live_mode_active' = active
    /\ ops' = Called("SetLiveMode")
    /\ emitted' = << >>
    /\ did' = "SetLiveMode"
    /\ UNCHANGED <<data, disturbed, live_data, dataset, queueVars, running, paused, pending,
                   pool, pc, bulkVars, gui, stops, nfail, faceVars, statVars>>

\* roiStatsWindow.setDataset in live mode with a dataset: promptSaveLiveData
\* asks only when there is live data, and saves or discards it (proceed) or is
\* cancelled; then setLiveMode(False) and the rest of setDataset.
SetDatasetFromLive(d, proceed) ==
    /\ GuiCall("SetDataset")
    /\ live_mode_active /\ d # NoDataset
    /\ ~has_live_data(live_data) => proceed
    /\ Len(task_queue) + Cardinality(DOMAIN data) <= MaxQueue
    /\ ops' = Called("SetDataset")
    /\ emitted' = << >>
    /\ IF proceed
       THEN /\ live_data' = IF has_live_data(live_data) THEN clear_live_data(live_data)
                             ELSE live_data
            /\ live_frame_counter' = IF has_live_data(live_data) THEN 0
                                      ELSE live_frame_counter
            /\ live_mode_active' = FALSE
            /\ dataset' = d
            /\ data' = resize_dataset(data, TotalFrames(d))
            /\ disturbed' = disturbed \cup DOMAIN data
            /\ task_queue' = task_queue \o BulkTasks(RoiList(DOMAIN data), TotalFrames(d))
            /\ did' = "SetDataset"
       ELSE /\ did' = "SetDatasetCancelled"
            /\ UNCHANGED <<cacheVars, dataset, task_queue>>
    /\ UNCHANGED <<priority_queue, running, paused, pending, pool, pc, bulkVars, gui, stops,
                   nfail, faceVars, statVars>>

\* roiStatsWindow._on_roi_added, the current frame index being f
AddRoi(r, f) ==
    /\ GuiCall("AddRoi")
    /\ r \notin DOMAIN data
    /\ r = "B" => "A" \in DOMAIN data
    /\ Len(task_queue) < MaxQueue
    /\ Len(priority_queue) < MaxQueue
    /\ live_data' = add_live(live_data, r)
    /\ data' = add_roi(data, r, TotalFrames(dataset))
    /\ task_queue' = IF TotalFrames(dataset) > 0
                     THEN Append(task_queue, BulkTask(r, TotalFrames(dataset)))
                     ELSE task_queue
    /\ priority_queue' = IF FrameData(dataset, f) # NoFrame
                         THEN Append(priority_queue,
                                     PriorityTask(f, FrameData(dataset, f), <<r>>))
                         ELSE priority_queue
    /\ ops' = Called("AddRoi")
    /\ emitted' = << >>
    /\ did' = "AddRoi"
    /\ UNCHANGED <<dataset, running, paused, pending, pool, pc, bulkVars,
                   gui, stops, nfail, geometry, current_frame_index, call, disturbed,
                   liveVars, statVars>>

\* roiStatsWindow._on_roi_removed
RemoveRoi(r) ==
    /\ GuiCall("RemoveRoi")
    /\ r \in DOMAIN data
    /\ live_data' = remove_live(live_data, r)
    /\ data' = remove_roi(data, r)
    /\ disturbed' = disturbed \cup {r}
    /\ ops' = Called("RemoveRoi")
    /\ emitted' = << >>
    /\ did' = "RemoveRoi"
    /\ UNCHANGED <<dataset, queueVars, running, paused, pending, pool, pc, bulkVars, gui,
                   stops, nfail, geometry, current_frame_index, call, liveVars, statVars>>

\* queue_current_frame for frame f of the dataset and every tracked ROI
QueueCurrentFrame(f) ==
    /\ GuiCall("QueueCurrentFrame")
    /\ FrameData(dataset, f) # NoFrame
    /\ DOMAIN data # {}
    /\ Len(priority_queue) < MaxQueue
    /\ priority_queue' = Append(priority_queue,
                                PriorityTask(f, FrameData(dataset, f), RoiList(DOMAIN data)))
    /\ ops' = Called("QueueCurrentFrame")
    /\ emitted' = << >>
    /\ did' = "QueueCurrentFrame"
    /\ UNCHANGED <<cacheVars, statVars, dataset, task_queue, running, paused, pending, pool, pc,
                   bulkVars, gui, stops, nfail, faceVars>>

\* roiStatsWindow.updateCurrentFrame(frame_index, frame_data), frame_data
\* passed in or left out.  With frame data at hand and an ROI in the table it
\* calls queue_current_frame with the keyword is_live_mode, which the engine's
\* method does not take: the call raises TypeError and enqueues nothing.
UpdateCurrentFrame(f, passed) ==
    /\ GuiCall("UpdateCurrentFrame")
    /\ current_frame_index' = f
    /\ LET frame_data == IF passed THEN LiveFrame ELSE FrameData(dataset, f)
           roi_list == RoiList(DOMAIN data)
       IN  did' = IF frame_data = NoFrame THEN "UpdateCurrentFrameNoData"
                  ELSE IF roi_list = << >> THEN "UpdateCurrentFrameNoRoi"
                  ELSE "UpdateCurrentFrameRaised"
    /\ ops' = Called("UpdateCurrentFrame")
    /\ emitted' = << >>
    /\ UNCHANGED <<cacheVars, statVars, dataset, queueVars, running, paused, pending, pool, pc,
                   bulkVars, gui, stops, nfail, geometry, call>>

Pause ==
    /\ GuiCall("Pause")
    /\ ~paused
    /\ paused' = TRUE
    /\ ops' = Called("Pause")
    /\ emitted' = << >>
    /\ did' = "Pause"
    /\ UNCHANGED <<cacheVars, statVars, dataset, queueVars, running, pending, pool, pc, bulkVars, gui, stops, nfail, faceVars>>

Resume ==
    /\ GuiCall("Resume")
    /\ paused
    /\ paused' = FALSE
    /\ ops' = Called("Resume")
    /\ emitted' = << >>
    /\ did' = "Resume"
    /\ UNCHANGED <<cacheVars, statVars, dataset, queueVars, running, pending, pool, pc, bulkVars, gui, stops, nfail, faceVars>>


\* stop(), first statement: self._running = False
StopCall ==
    /\ GuiIdle("Stop")
    /\ running' = FALSE
    /\ gui' = "stop_drain_bulk"
    /\ ops' = Called("Stop")
    /\ emitted' = << >>
    /\ did' = "StopCall"
    /\ UNCHANGED <<cacheVars, statVars, dataset, queueVars, paused, pending, pool, pc, bulkVars, stops, nfail, faceVars>>

\* What stop() leaves of the pool: waitForDone(1000) waits, at most a second,
\* and takes no worker out.
WaitForDone(p) == p

\* stop(): the bounded wait for the pool, then the bulk channel is cleared
StopDrainBulk ==
    /\ gui = "stop_drain_bulk"
    /\ pool' = WaitForDone(pool)
    /\ task_queue' = << >>
    /\ gui' = "stop_drain_prio"
    /\ emitted' = << >>
    /\ did' = "StopDrainBulk"
    /\ UNCHANGED <<cacheVars, statVars, dataset, priority_queue, running, paused, pending, pc,
                   bulkVars, ops, stops, nfail, faceVars>>

\* stop(): the priority channel is cleared
StopDrainPrio ==
    /\ gui = "stop_drain_prio"
    /\ priority_queue' = << >>
    /\ gui' = "stop_join"
    /\ emitted' = << >>
    /\ did' = "StopDrainPrio"
    /\ UNCHANGED <<cacheVars, statVars, dataset, task_queue, running, paused, pending, pool, pc,
                   bulkVars, ops, stops, nfail, faceVars>>

\* stop(): quit() and wait() return once run() has returned
StopJoin ==
    /\ gui = "stop_join"
    /\ pc = "exited"
    /\ gui' = "idle"
    /\ stops' = stops + 1
    /\ emitted' = << >>
    /\ did' = "StopJoin"
    /\ UNCHANGED <<cacheVars, statVars, dataset, queueVars, running, paused, pending, pool, pc,
                   bulkVars, ops, nfail, faceVars>>

\* ------------------------------------------------- the dispatch thread
\* The workers _process_priority_task starts: one per (roi_name, roi) of the list.
RECURSIVE PriorityWorkers(_, _)
PriorityWorkers(task, rois) ==
    IF rois = << >> THEN << >>
    ELSE <<Worker(Head(rois), task.frame, task.frame_data, TRUE)>>
         \o PriorityWorkers(task, Tail(rois))

\* Where run() goes after _process_priority_task: continue, to the loop's head.
AfterPriorityTask == "poll"

\* run(): if not self._paused
BulkAllowed(p) == ~p

\* run(): priority_queue.get(timeout=0.01) returns a job, whatever _paused is
PriorityReady(q, p) == q # << >>

\* run(): the loop's head up to the bulk channel's get: while self._running,
\* priority_queue.get(timeout=0.01) and, on a job, _process_priority_task;
\* on queue.Empty the check of _paused, which leads to the bulk channel or to
\* the sleep that ends the iteration.
PollPriority ==
    /\ pc = "poll"
    /\ IF ~running
       THEN /\ pc' = "exited"
            /\ did' = "EngineExit"
            /\ UNCHANGED <<priority_queue, pending, pool>>
       ELSE IF PriorityReady(priority_queue, paused)
       THEN LET task == Head(priority_queue)
            IN  /\ priority_queue' = Tail(priority_queue)
                /\ pending' = Len(task.roi_list)
                /\ pool' = StartAll(pool, PriorityWorkers(task, task.roi_list))
                /\ pc' = AfterPriorityTask
                /\ did' = "ProcessPriority"
       ELSE /\ pc' = IF BulkAllowed(paused) THEN "get_bulk" ELSE "poll"
            /\ did' = IF BulkAllowed(paused) THEN "PollEmpty" ELSE "PollPaused"
            /\ UNCHANGED <<priority_queue, pending, pool>>
    /\ emitted' = << >>
    /\ UNCHANGED <<cacheVars, statVars, dataset, task_queue, running, paused, bulkVars, guiVars,
                   nfail, faceVars>>

\* _process_bulk_task: the frames get_mean has no value for
frames_to_compute(d, task) ==
    Sorted({f \in 0..(task.total - 1) : get_mean(d, task.roi, f) = None})

\* _process_bulk_task: if self.dataset is None
DatasetMissing(d) == d = NoDataset

\* run(): task_queue.get(timeout=0.1), and _process_bulk_task up to its chunk loop
GetBulk ==
    /\ pc = "get_bulk"
    /\ IF task_queue = << >>
       THEN /\ pc' = "poll"
            /\ emitted' = << >>
            /\ did' = "BulkEmpty"
            /\ UNCHANGED <<task_queue, bulkVars>>
       ELSE LET task == Head(task_queue)
                frames == frames_to_compute(data, task)
            IN  /\ task_queue' = Tail(task_queue)
                /\ cur' = task
                /\ ci' = 0
                /\ cj' = 0
                /\ IF DatasetMissing(dataset)
                   THEN /\ emitted' = <<errorOccurred(task.roi)>>
                        /\ todo' = << >>
                        /\ pc' = "poll"
                        /\ did' = "BulkNoDataset"
                   ELSE IF frames = << >>
                   THEN /\ emitted' = <<bulkAnalysisComplete(task.roi)>>
                        /\ todo' = << >>
                        /\ pc' = "poll"
                        /\ did' = "BulkAlreadyComplete"
                   ELSE /\ emitted' = << >>
                        /\ todo' = frames
                        /\ pc' = "chunk_run"
                        /\ did' = "BulkStart"
    /\ UNCHANGED <<cacheVars, statVars, dataset, priority_queue, running, paused, pending, pool, guiVars, nfail, faceVars>>

\* _process_bulk_task: the head of the chunk loop (if not self._running: break),
\* and, the loop over, bulkAnalysisComplete if self._running
ChunkRunning ==
    /\ pc = "chunk_run"
    /\ IF ci >= Len(todo)
       THEN /\ pc' = "poll"
            /\ emitted' = IF running THEN <<bulkAnalysisComplete(cur.roi)>> ELSE << >>
            /\ did' = IF running THEN "BulkComplete" ELSE "BulkStopped"
       ELSE IF ~running
       THEN /\ pc' = "poll"
            /\ emitted' = << >>
            /\ did' = "BulkStopped"
       ELSE /\ pc' = "chunk_prio"
            /\ emitted' = << >>
            /\ did' = "ChunkRunning"
    /\ UNCHANGED <<cacheVars, statVars, dataset, queueVars, running, paused, pending, pool,
                   bulkVars, guiVars, nfail, faceVars>>

\* Whether the chunk loop yields to the priority channel.
Preempted(q) == q # << >>

\* self.task_queue.put(task) of a job that yields
Requeue(q, task) == Append(q, task)

\* _process_bulk_task: if not self.priority_queue.empty(): re-queue and return
ChunkPriority ==
    /\ pc = "chunk_prio"
    /\ IF Preempted(priority_queue)
       THEN /\ task_queue' = Requeue(task_queue, cur)
            /\ pc' = "poll"
            /\ did' = "BulkPreempted"
       ELSE /\ pc' = "submit"
            /\ did' = "ChunkStart"
            /\ UNCHANGED task_queue
    /\ cj' = 0
    /\ emitted' = << >>
    /\ UNCHANGED <<cacheVars, statVars, dataset, priority_queue, running, paused, pending, pool,
                   cur, todo, ci, guiVars, nfail, faceVars>>

\* len(chunk) for chunk = frames_to_compute[i:i + chunk_size]
ChunkLen == Min(ChunkSize, Len(todo) - ci)

\* _process_bulk_task: one turn of the loop over the chunk's frames
SubmitFrame ==
    /\ pc = "submit"
    /\ IF ~running
       THEN /\ pc' = "wait"
            /\ did' = "SubmitStopped"
            /\ UNCHANGED <<pool, cj>>
       ELSE LET frame_idx == todo[ci + cj + 1]
            IN  /\ IF FrameData(dataset, frame_idx) = NoFrame
                   THEN /\ did' = "SubmitSkipped"
                        /\ UNCHANGED pool
                   ELSE /\ pool' = Start(pool, Worker(cur.roi, frame_idx,
                                                      FrameData(dataset, frame_idx), FALSE))
                        /\ did' = "SubmitFrame"
                /\ cj' = cj + 1
                /\ pc' = IF cj + 1 >= ChunkLen THEN "wait" ELSE "submit"
    /\ emitted' = << >>
    /\ UNCHANGED <<cacheVars, statVars, dataset, queueVars, running, paused, pending, cur, todo,
                   ci, guiVars, nfail, faceVars>>

\* _process_bulk_task: the wait for the pool ends, the pool idle or wait_count at
\* 100, and the progress signal is emitted
WaitProgress ==
    /\ pc = "wait"
    /\ emitted' = <<bulkProgressUpdated(cur.roi, get_progress(data, cur.roi)[1],
                                         get_progress(data, cur.roi)[2])>>
    /\ ci' = ci + ChunkSize
    /\ pc' = "chunk_run"
    /\ did' = IF Active(pool) THEN "ProgressTimedOut" ELSE "Progress"
    /\ UNCHANGED <<cacheVars, statVars, dataset, queueVars, running, paused, pending, pool, cur,
                   todo, cj, guiVars, nfail, faceVars>>

\* ------------------------------------------------------------- workers
\* The signals of a worker that reach the engine: the priority workers' only
\* (_process_bulk_task connects none).
WorkerSignals(w, ok) ==
    IF ~w.prio THEN << >>
    ELSE IF ok THEN <<currentFrameReady(w.roi, compute_mean_for_roi(w.roi, w.frame_data))>>
    ELSE <<errorOccurred(w.roi)>>

\* _on_worker_finished / _on_worker_error on the pending counter
PendingAfter(n, w) == IF w.prio THEN n - 1 ELSE n

\* The cache after ROIComputationWorker.run
WorkerStore(d, w, ok) ==
    IF ok THEN set_mean(d, w.roi, w.frame, compute_mean_for_roi(w.roi, w.frame_data))
    ELSE d

\* ROIComputationWorker.run, and the slot its signal is connected to
WorkerRun(w, ok) ==
    /\ BagIn(w, pool)
    /\ ok \/ nfail < MaxFail
    /\ pool' = Leave(pool, w)
    /\ data' = WorkerStore(data, w, ok)
    /\ emitted' = WorkerSignals(w, ok)
    /\ pending' = PendingAfter(pending, w)
    /\ nfail' = IF ok THEN nfail ELSE nfail + 1
    /\ did' = IF ok THEN "WorkerRun" ELSE "WorkerFailed"
    /\ UNCHANGED <<dataset, queueVars, running, paused, pc, bulkVars, guiVars,
                   disturbed, live_data, liveVars, statVars, faceVars>>

\* ------------------------------------------------------ ROI geometry
\* The geometry a mean was computed with.
GeometryOf(v) == v \div 1000

\* The user moves or reshapes the ROI object on the plot.  The workers and the
\* queued jobs hold the object itself; no slot of the window is connected to
\* its change.
MoveRoi(r) ==
    /\ GuiCall("MoveRoi")
    /\ r \in DOMAIN data
    /\ geometry' = [geometry EXCEPT ![r] = @ + 1]
    /\ ops' = Called("MoveRoi")
    /\ emitted' = << >>
    /\ did' = "MoveRoi"
    /\ UNCHANGED <<cacheVars, statVars, dataset, queueVars, running, paused, pending, pool, pc,
                   bulkVars, gui, stops, nfail, current_frame_index, call>>

\* A caller that follows the change by cache.update_roi_geometry(name) and
\* engine.queue_bulk_analysis([(name, roi)], total_frames).
InvalidateRoi(r) ==
    /\ GuiCall("MoveRoi")
    /\ r \in DOMAIN data
    /\ Len(task_queue) < MaxQueue
    /\ geometry' = [geometry EXCEPT ![r] = @ + 1]
    /\ data' = update_roi_geometry(data, r)
    /\ disturbed' = disturbed \cup {r}
    /\ task_queue' = task_queue \o BulkTasks(<<r>>, TotalFrames(dataset))
    /\ ops' = Called("MoveRoi")
    /\ emitted' = << >>
    /\ did' = "InvalidateRoi"
    /\ UNCHANGED <<live_data, liveVars, statVars, dataset, priority_queue, running, paused, pending, pool, pc,
                   bulkVars, gui, stops, nfail, current_frame_index, call>>

\* ROIComputationWorker.run up to its call of set_mean: the mean under the
\* geometry the ROI object has at that moment.
WorkerCompute(w) ==
    /\ BagIn(w, pool)
    /\ w.val = None
    /\ pool' = Start(Leave(pool, w),
                     [w EXCEPT !.val = compute_mean_for_roi(w.roi, w.frame_data)])
    /\ emitted' = << >>
    /\ did' = "WorkerCompute"
    /\ UNCHANGED <<cacheVars, statVars, dataset, queueVars, running, paused, pending, pc, bulkVars,
                   guiVars, nfail, faceVars>>

\* The rest of ROIComputationWorker.run: set_mean and finished.emit.
WorkerFinish(w) ==
    /\ BagIn(w, pool)
    /\ w.val # None
    /\ pool' = Leave(pool, w)
    /\ data' = set_mean(data, w.roi, w.frame, w.val)
    /\ emitted' = IF w.prio THEN <<currentFrameReady(w.roi, w.val)>> ELSE << >>
    /\ pending' = PendingAfter(pending, w)
    /\ did' = "WorkerFinish"
    /\ UNCHANGED <<dataset, queueVars, running, paused, pc, bulkVars, guiVars, nfail,
                   disturbed, live_data, liveVars, statVars, faceVars>>

\* ---------------------------------------------------- the cache alone
\* Calls on a ROIDataCache that no engine is attached to: call keeps the call
\* and the entries and logs it found.
CacheCall(op, r, f, v) ==
    [op |-> op, roi |-> r, frame |-> f, value |-> v, n |-> call.n + 1, before |-> data,
     live_before |-> live_data]

engineVars == <<dataset, task_queue, priority_queue, running, paused, pending, pool,
                pc, cur, todo, ci, cj, gui, ops, stops, nfail, emitted, did,
                geometry, current_frame_index>>

CacheIdle == call.n < MaxCacheCalls

\* datetime.datetime.now(): the calls made so far
Now == call.n + 1

\* ROIDataCache.add_roi
CacheAddRoi(r, total) ==
    /\ CacheIdle
    /\ data' = add_roi(data, r, total)
    /\ live_data' = add_live(live_data, r)
    /\ disturbed' = disturbed \ {r}
    /\ call' = CacheCall("add_roi", r, total, 0)
    /\ UNCHANGED <<liveVars, statVars, engineVars>>

\* ROIDataCache.remove_roi
CacheRemoveRoi(r) ==
    /\ CacheIdle
    /\ data' = remove_roi(data, r)
    /\ live_data' = remove_live(live_data, r)
    /\ disturbed' = disturbed \cup {r}
    /\ call' = CacheCall("remove_roi", r, 0, 0)
    /\ UNCHANGED <<liveVars, statVars, engineVars>>

\* ROIDataCache.set_mean
CacheSetMean(r, f, v) ==
    /\ CacheIdle
    /\ data' = set_mean(data, r, f, v)
    /\ call' = CacheCall("set_mean", r, f, v)
    /\ UNCHANGED <<live_data, liveVars, statVars, disturbed, engineVars>>

\* ROIDataCache.resize_dataset
CacheResize(n) ==
    /\ CacheIdle
    /\ data' = resize_dataset(data, n)
    /\ disturbed' = disturbed \cup DOMAIN data
    /\ call' = CacheCall("resize_dataset", "", n, 0)
    /\ UNCHANGED <<live_data, liveVars, statVars, engineVars>>

\* ROIDataCache.update_roi_geometry
CacheUpdateGeometry(r) ==
    /\ CacheIdle
    /\ data' = update_roi_geometry(data, r)
    /\ disturbed' = disturbed \cup ({r} \cap DOMAIN data)
    /\ call' = CacheCall("update_roi_geometry", r, 0, 0)
    /\ UNCHANGED <<live_data, liveVars, statVars, engineVars>>

\* ROIDataCache.append_live_mean, the timestamp left out
CacheAppendLive(r, v) ==
    /\ CacheIdle
    /\ r \in DOMAIN live_data => Len(live_data[r].means) < MaxLive
    /\ live_data' = append_live_mean(live_data, r, v, Now)
    /\ live_frame_counter' = append_live_counter(live_frame_counter, live_data, r)
    /\ call' = CacheCall("append_live_mean", r, 0, v)
    /\ UNCHANGED <<data, disturbed, live_mode_active, statVars, engineVars>>

\* ROIDataCache.clear_live_data
CacheClearLive ==
    /\ CacheIdle
    /\ live_data' = clear_live_data(live_data)
    /\ live_frame_counter' = 0
    /\ call' = CacheCall("clear_live_data", "", 0, 0)
    /\ UNCHANGED <<data, disturbed, live_mode_active, statVars, engineVars>>

\* a clear_all that empties the live logs as well
ClearAllAndLive ==
    /\ CacheIdle
    /\ data' = clear_all(data)
    /\ live_data' = clear_live_data(live_data)
    /\ disturbed' = disturbed \cup DOMAIN data
    /\ call' = CacheCall("clear_all", "", 0, 0)
    /\ UNCHANGED <<liveVars, statVars, engineVars>>

\* ROIDataCache.clear_all
CacheClearAll ==
    /\ CacheIdle
    /\ data' = clear_all(data)
    /\ disturbed' = disturbed \cup DOMAIN data
    /\ call' = CacheCall("clear_all", "", 0, 0)
    /\ UNCHANGED <<live_data, liveVars, statVars, engineVars>>

\* ROIDataCache.set_live_mode
CacheSetLiveMode(active) ==
    /\ CacheIdle
    /\ live_frame_counter' = set_live_mode_counter(live_frame_counter, live_mode_active, active)
    /\ live_mode_active' = active
    /\ call' = CacheCall("set_live_mode", "", 0, 0)
    /\ UNCHANGED <<data, disturbed, live_data, statVars, engineVars>>

\* ------------------------------------------------------- specification
\* The window's _current_frame_index, which no call of these behaviours changes.
CurrentFrameIndex == 0

GuiStack ==
    \/ \E d \in {Stack, NoDataset} : SetDataset(d)
    \/ AddRoi("A", CurrentFrameIndex)
    \/ RemoveRoi("A")
    \/ \E f \in 0..(MaxFrames - 1) : QueueCurrentFrame(f)

GuiPause ==
    \/ Pause
    \/ Resume

GuiStop ==
    \/ StopCall
    \/ StopDrainBulk
    \/ StopDrainPrio
    \/ StopJoin

GuiRois ==
    \/ SetDataset(Still)
    \/ \E r \in ROIs : AddRoi(r, CurrentFrameIndex)
    \/ QueueCurrentFrame(0)

Dispatch ==
    \/ PollPriority
    \/ GetBulk
    \/ ChunkRunning
    \/ ChunkPriority
    \/ SubmitFrame
    \/ WaitProgress

Workers == \E w \in BagToSet(pool), ok \in BOOLEAN : WorkerRun(w, ok)

\* One ROI on a stack of MaxFrames frames, every call of the GUI thread.
Next == GuiStack \/ GuiPause \/ GuiStop \/ Dispatch \/ Workers

Spec == Init /\ [][Next]_vars

\* Two ROIs on a single image.
NextRois == GuiRois \/ Dispatch \/ Workers

SpecRois == Init /\ [][NextRois]_vars

\* The calls after which a bulk job has every frame to compute and nothing
\* takes its ROI, its dataset or the engine away.
GuiLive ==
    \/ SetDataset(Stack)
    \/ AddRoi("A", CurrentFrameIndex)
    \/ \E f \in 0..(MaxFrames - 1) : QueueCurrentFrame(f)

\* Workers whose computation does not raise.
Computes == \E w \in BagToSet(pool) : WorkerRun(w, TRUE)

\* The dispatch thread and the pool's threads keep running: QThread.start() in
\* ROIComputationEngine.__init__'s caller and QThreadPool.start(worker).
Fairness == WF_vars(Dispatch) /\ WF_vars(Computes)

NextLive == GuiLive \/ Dispatch \/ Computes

SpecLive == Init /\ [][NextLive]_vars /\ Fairness

\* The same with pause() and resume().
NextPaused == GuiLive \/ GuiPause \/ Dispatch \/ Computes

SpecPaused == Init /\ [][NextPaused]_vars /\ Fairness

\* One ROI on a stack, moved by the user.
NextMove == GuiLive \/ MoveRoi("A") \/ Dispatch \/ Computes

SpecMove == Init /\ [][NextMove]_vars

\* One ROI on a stack, each change of its geometry followed by the invalidation
\* of its entry and a bulk job; a worker computes and stores in two steps.
GuiGeom ==
    \/ SetDataset(Stack)
    \/ AddRoi("A", CurrentFrameIndex)
    \/ InvalidateRoi("A")

ComputesThenStores ==
    \/ \E w \in BagToSet(pool) : WorkerCompute(w)
    \/ \E w \in BagToSet(pool) : WorkerFinish(w)

NextGeom == GuiGeom \/ Dispatch \/ ComputesThenStores

SpecGeom == Init /\ [][NextGeom]_vars

\* The statistics window: a short stack, a single image or no dataset, both
\* ROIs, the frame shown.
GuiFace ==
    \/ \E d \in {Short, Still, NoDataset} : SetDataset(d)
    \/ \E r \in ROIs : AddRoi(r, current_frame_index)
    \/ \E f \in 0..(MaxFrames - 1), passed \in BOOLEAN : UpdateCurrentFrame(f, passed)

NextFace == GuiFace \/ Dispatch \/ Computes

SpecFace == Init /\ [][NextFace]_vars

\* Live capture: the camera's latest frame as the dataset, live mode switched
\* on and off, ROIs drawn, each preview frame passed to updateCurrentFrame(0,
\* frame), a recorded stack loaded afterwards.
GuiCapture ==
    \/ \E active \in BOOLEAN : SetLiveMode(active)
    \/ \E d \in {Still, NoDataset} : SetDataset(d)
    \/ \E proceed \in BOOLEAN : SetDatasetFromLive(Short, proceed)
    \/ \E r \in ROIs : AddRoi(r, current_frame_index)
    \/ UpdateCurrentFrame(0, TRUE)

NextCapture == GuiCapture \/ Dispatch \/ Computes

SpecCapture == Init /\ [][NextCapture]_vars

\* A worker's run on its own: compute_mean_for_roi on the ROI and the frame it
\* was made with, then the signal.  No ROI is tracked, so set_mean stores nothing.
ComputeMean ==
    /\ mean_value = NotComputed
    /\ mean_value' = mean_for_roi(roi_arg, frame_arg)
    /\ emitted' = IF mean_value'.exc THEN <<errorOccurred("A")>>
                  ELSE <<currentFrameReady("A", mean_value')>>
    /\ did' = IF mean_value'.exc THEN "WorkerFailed" ELSE "WorkerRun"
    /\ UNCHANGED <<cacheVars, dataset, queueVars, running, paused, pending, pool, pc,
                   bulkVars, gui, ops, stops, nfail, faceVars, roi_arg, frame_arg>>

InitMask ==
    /\ Constructed
    /\ roi_arg \in RoiInputs
    /\ frame_arg \in FrameInputs
    /\ mean_value = NotComputed

NextMask == ComputeMean

SpecMask == InitMask /\ [][NextMask]_vars

\* The cache alone: entries of up to MaxIndex + 1 frames.
NextCache ==
    \/ \E r \in ROIs, total \in {0, MaxIndex} : CacheAddRoi(r, total)
    \/ \E r \in ROIs : CacheRemoveRoi(r)
    \/ \E r \in ROIs, f \in 0..MaxIndex, v \in Means : CacheSetMean(r, f, v)
    \/ \E n \in 0..(MaxIndex + 1) : CacheResize(n)
    \/ \E r \in ROIs : CacheUpdateGeometry(r)
    \/ \E r \in ROIs, v \in Means : CacheAppendLive(r, v)
    \/ CacheClearLive
    \/ CacheClearAll
    \/ \E active \in BOOLEAN : CacheSetLiveMode(active)

SpecCache == Init /\ [][NextCache]_vars

\* ----------------------------------------------------------------- claims
\* The frames 0..n-1 of dataset d, and what get_all_means returns for ROI r
\* once each of them holds the statistic of its frame.
AllFrames(d) == 0..(TotalFrames(d) - 1)
FullSeries(r, d) ==
    <<[k \in 1..TotalFrames(d) |-> k - 1],
      [k \in 1..TotalFrames(d) |-> compute_mean_for_roi(r, FrameData(d, k - 1))]>>

\* The entry of r has not been removed, resized or invalidated, and no
\* computation has raised.
Undisturbed(r) == r \in DOMAIN data /\ r \notin disturbed /\ nfail = 0

\* C1: when bulkAnalysisComplete(r) is emitted for a job over the N frames of
\* the dataset and a tracked ROI r whose entry was not removed, invalidated or
\* resized, computed_frames of r is {0..N-1} and get_all_means(r) pairs every
\* index 0..N-1 with the statistic of that frame.
C1_CompleteMeansAllComputed ==
    \A r \in ROIs :
        (/\ emitted = <<bulkAnalysisComplete(r)>>
         /\ dataset # NoDataset
         /\ cur = BulkTask(r, TotalFrames(dataset))
         /\ Undisturbed(r))
        => /\ data[r].computed = AllFrames(dataset)
           /\ get_all_means(data, r) = FullSeries(r, dataset)

\* Steps, told by what they change.
\* The dispatch thread takes the head of the bulk channel.
DequeuesBulk ==
    /\ task_queue # << >>
    /\ task_queue' = Tail(task_queue)
    /\ gui' = gui
\* The dispatch thread takes the head of the priority channel.
DequeuesPriority ==
    /\ priority_queue # << >>
    /\ priority_queue' = Tail(priority_queue)
    /\ gui' = gui
\* Worker w runs: one copy of it leaves the pool.
Ran(w) == BagIn(w, pool) /\ pool' = Leave(pool, w)
Raised == nfail' = nfail + 1

\* The jobs of a channel.
Jobs(q) == {q[k] : k \in 1..Len(q)}
Lists(task, r) == \E k \in 1..Len(task.roi_list) : task.roi_list[k] = r

\* C2 as the specification states it: a priority job enqueued while a bulk job for
\* the same ROI is mid-chunk has its results in the cache before the bulk job's
\* next progress event.
C2_ResultsBeforeNextProgress ==
    \A r \in ROIs :
        (/\ emitted # << >>
         /\ emitted[1].sig = "bulkProgressUpdated"
         /\ emitted[1].roi = r
         /\ running
         /\ Undisturbed(r))
        => \A task \in Jobs(priority_queue) :
               Lists(task, r) =>
                   get_mean(data, r, task.frame)
                       = compute_mean_for_roi(r, task.frame_data)

\* C2, amended: a priority job that arrives while a bulk job is mid-chunk is
\* served at the job's next chunk boundary: with the priority channel non-empty
\* the bulk job starts no further chunk, it is put back and the dispatch thread
\* returns to the priority channel, where every worker of the priority job is
\* started; and a worker that runs without raising leaves its value in the cell
\* (ROI, frame) of a tracked ROI, the same value for the same frame data.
C2_PriorityServedAtChunkBoundary ==
    [][/\ (pc = "chunk_prio" /\ priority_queue # << >> /\ pc' # pc)
          => /\ pc' = "poll"
             /\ task_queue' = Append(task_queue, cur)
             /\ UNCHANGED <<pool, priority_queue, data>>
       /\ (pc' = "submit" /\ pc = "chunk_prio") => priority_queue = << >>
       /\ DequeuesPriority
          => LET task == Head(priority_queue)
             IN  /\ pool' = StartAll(pool, PriorityWorkers(task, task.roi_list))
                 /\ \A r \in ROIs :
                        Lists(task, r)
                        => BagIn(Worker(r, task.frame, task.frame_data, TRUE), pool')
       /\ \A w \in BagToSet(pool) :
              (Ran(w) /\ ~Raised /\ w.roi \in DOMAIN data)
              => get_mean(data', w.roi, w.frame)
                     = compute_mean_for_roi(w.roi, w.frame_data)
      ]_vars

\* A priority worker's value is in the cache while the bulk job it preempted
\* after its first chunk waits on the bulk channel.
C2_Witness ==
    /\ emitted # << >>
    /\ emitted[1].sig = "currentFrameReady"
    /\ emitted[1].roi = cur.roi
    /\ cur \in Jobs(task_queue)
    /\ ci > 0
    /\ ci < Len(todo)
    /\ running
    /\ \E f \in AllFrames(dataset) : get_mean(data, cur.roi, f) = emitted[1].x

\* C3: a bulk job that finds the priority channel non-empty before a chunk is
\* put back at the tail of the bulk channel, with the pool, the cache and the
\* priority channel as they were, and the dispatch thread returns to the poll;
\* no chunk is submitted past a non-empty priority channel; a job that is
\* dispatched takes exactly the frames get_mean has no value for; and once a
\* bulk job is queued every frame of its ROI is eventually computed, with the
\* statistic of that frame.
C3_PreemptedJobResumes ==
    /\ [][/\ (pc = "chunk_prio" /\ priority_queue # << >> /\ pc' # pc)
             => /\ task_queue' = Append(task_queue, cur)
                /\ pc' = "poll"
                /\ UNCHANGED <<pool, data, priority_queue>>
          /\ (pc' = "submit" /\ pc # "submit")
             => (pc = "chunk_prio" /\ priority_queue = << >>)
          /\ (DequeuesBulk /\ pc' = "chunk_run")
             => LET task == Head(task_queue)
                IN  /\ cur' = task
                    /\ \A f \in 0..(task.total - 1) :
                           (\E k \in 1..Len(todo') : todo'[k] = f)
                           <=> (task.roi \notin DOMAIN data
                                \/ f \notin data[task.roi].computed)
                    /\ \A k \in 1..Len(todo') : todo'[k] \in 0..(task.total - 1)
                    /\ \A k \in 1..(Len(todo') - 1) : todo'[k] < todo'[k + 1]
         ]_vars
    /\ \A r \in ROIs :
           (BulkTask(r, MaxFrames) \in Jobs(task_queue))
           ~> (/\ r \in DOMAIN data
               /\ data[r].computed = AllFrames(Stack)
               /\ get_all_means(data, r) = FullSeries(r, Stack))

\* A job that yielded is dispatched again, for the frames still missing, while
\* a worker of its earlier chunk is still in the pool.
C3_Witness ==
    /\ did = "BulkStart"
    /\ todo # << >>
    /\ Len(todo) < cur.total
    /\ \E w \in BagToSet(pool) : ~w.prio /\ w.roi = cur.roi
    /\ \A k \in 1..Len(todo) : todo[k] \notin data[cur.roi].computed

\* C4: the dispatch thread takes a bulk job only at the blocking get of an
\* iteration whose priority poll found the priority channel empty, with the
\* engine running and not paused at that poll; an iteration that found a
\* priority job dispatches it and goes back to the poll.
C4_PriorityPolledFirst ==
    [][/\ DequeuesBulk => pc = "get_bulk"
       /\ (pc' = "get_bulk" /\ pc # "get_bulk")
          => /\ pc = "poll"
             /\ priority_queue = << >>
             /\ running
             /\ ~paused
             /\ UNCHANGED <<task_queue, pool>>
       /\ (pc = "get_bulk" /\ pc' # pc) => (DequeuesBulk \/ task_queue = << >>)
       /\ (pc = "poll" /\ priority_queue # << >> /\ running /\ pc' # "exited")
          => /\ pc' = "poll"
             /\ task_queue' = task_queue \/ gui' # gui \/ ops' # ops
       /\ (DequeuesPriority /\ pc = "poll") => (pc' = "poll" /\ UNCHANGED task_queue)
      ]_vars

\* A bulk job is started after priority workers were started ahead of it.
C4_Witness ==
    /\ did = "BulkStart"
    /\ \E w \in BagToSet(pool) : w.prio
    /\ priority_queue = << >>

\* C5: while the engine is paused no bulk job leaves the bulk channel, and the
\* channel keeps its order.
C5_NoBulkDequeueWhilePaused ==
    [][DequeuesBulk => ~paused]_vars

\* C6: a priority job taken from the priority channel starts exactly one worker
\* per ROI of its list, for the job's frame, and cancels none; and while the
\* engine is paused a non-empty priority channel always gets shorter, so every
\* job on it is taken.
C6_PriorityServedWhilePaused ==
    /\ [][DequeuesPriority
          => LET task == Head(priority_queue)
                 mine(r) == Worker(r, task.frame, task.frame_data, TRUE)
             IN  /\ \A r \in ROIs :
                        Lists(task, r)
                        => CopiesIn(mine(r), pool') = CopiesIn(mine(r), pool) + 1
                 /\ \A w \in BagToSet(pool') :
                        (\A r \in ROIs : Lists(task, r) => w # mine(r))
                        => CopiesIn(w, pool') = CopiesIn(w, pool)
                 /\ \A w \in BagToSet(pool) : BagIn(w, pool')
         ]_vars
    /\ \A n \in 1..MaxQueue :
           (Len(priority_queue) = n /\ paused) ~> (Len(priority_queue) < n)

\* A priority job has been dispatched while the engine is paused.
C6_Witness ==
    /\ did = "ProcessPriority"
    /\ paused
    /\ running
    /\ \E w \in BagToSet(pool) : w.prio

\* C7: once stop() has returned, both channels are empty and the dispatch loop
\* has exited, whatever was queued or in flight.
C7_StopLeavesNothingQueued ==
    stops >= 1
    => /\ pc = "exited"
       /\ task_queue = << >>
       /\ priority_queue = << >>

\* C8: a worker leaves the pool only by running: the step that takes it out
\* stores its value in the cell (ROI, frame) of a tracked ROI, or its
\* computation raised; stop(), the drains of stop() and a bulk job that yields
\* leave the pool as it is.
C8_SubmittedWorkersRun ==
    [][/\ \A w \in BagToSet(pool) :
              CopiesIn(w, pool') < CopiesIn(w, pool)
              => /\ Ran(w)
                 /\ \/ Raised /\ data' = data
                    \/ /\ ~Raised
                       /\ data' = set_mean(data, w.roi, w.frame,
                                           compute_mean_for_roi(w.roi, w.frame_data))
                       /\ w.roi \in DOMAIN data
                          => get_mean(data', w.roi, w.frame)
                                 = compute_mean_for_roi(w.roi, w.frame_data)
       /\ (gui' # gui \/ running' # running) => pool' = pool
       /\ (pc = "chunk_prio" /\ pc' = "poll") => pool' = pool
      ]_vars

\* A worker writes its value after stop() has returned.
C8_Witness ==
    /\ stops >= 1
    /\ did = "WorkerRun"
    /\ emitted # << >>
    /\ emitted[1].sig = "currentFrameReady"
    /\ \E f \in AllFrames(Stack) : get_mean(data, emitted[1].roi, f) = emitted[1].x

\* C9: a worker whose computation raises emits one error event naming its ROI
\* and takes one from the pending counter, writes nothing, and leaves the other
\* workers and the dispatch thread where they are.
C9_FailedWorkerReported ==
    [][\A w \in BagToSet(pool) :
           (Ran(w) /\ Raised)
           => /\ emitted' = <<errorOccurred(w.roi)>>
              /\ pending' = pending - 1
              /\ data' = data
              /\ UNCHANGED <<pc, task_queue, priority_queue>>
      ]_vars

\* C10: a bulk job taken while no dataset is attached emits exactly one error
\* event naming its ROI, no progress or completion event, starts no worker,
\* writes nothing and is not put back on the bulk channel.
C10_BulkWithoutDataset ==
    [][(DequeuesBulk /\ dataset = NoDataset)
       => /\ emitted' = <<errorOccurred(Head(task_queue).roi)>>
          /\ pc' = "poll"
          /\ UNCHANGED <<pool, data, priority_queue, pending>>
      ]_vars

\* The error event of a bulk job that found no dataset.
C10_Witness ==
    /\ did = "BulkNoDataset"
    /\ dataset = NoDataset
    /\ emitted = <<errorOccurred(cur.roi)>>
    /\ cur \notin Jobs(task_queue)
    /\ pool = EmptyBag

\* ---- the cache alone (SpecCache)
\* A step that is the cache call op; the frame indices the calls can reach.
CacheStep(op) == call'.n = call.n + 1 /\ call'.op = op
Indices == 0..(MaxIndex + 1)
Cells(e) == 0..(Len(e.means) - 1)

\* C11, as stated: after set_mean(name, i, v) on a tracked name,
\* get_mean(name, i) returns v.
C11_GetMeanReturnsWritten ==
    [][CacheStep("set_mean") /\ call'.roi \in DOMAIN data
         => get_mean(data', call'.roi, call'.frame) = call'.value]_vars

\* The write of v at i on a tracked name r: the value read back is v as
\* float32 holds it, the array grows to hold i, and every other cell and flag
\* is as it was.
WriteReadsBack(r, i, v) ==
    /\ get_mean(data', r, i) = float32(v)
    /\ DOMAIN data' = DOMAIN data
    /\ \A x \in DOMAIN data \ {r} : data'[x] = data[x]
    /\ Len(data'[r].means) = Max(Len(data[r].means), i + 1)
    /\ \A j \in Cells(data[r]) \ {i} : data'[r].means[j + 1] = data[r].means[j + 1]
    /\ \A j \in Indices \ {i} : get_mean(data', r, j) = get_mean(data, r, j)

\* A value is readable at (r, i) only if it was before the step, or the step
\* wrote it; creation and invalidation leave nothing readable, and nothing is
\* readable under an unknown name.
ReadableOnlyIfWritten ==
    /\ \A r \in ROIs, i \in Indices :
         get_mean(data', r, i) # None
           => \/ get_mean(data, r, i) # None
              \/ CacheStep("set_mean") /\ call'.roi = r /\ call'.frame = i
    /\ \A r \in ROIs, i \in Indices :
         (CacheStep("add_roi") \/ CacheStep("update_roi_geometry")) /\ call'.roi = r
           => get_mean(data', r, i) = None
    /\ \A r \in ROIs \ DOMAIN data', i \in Indices : get_mean(data', r, i) = None

\* C11, amended: after set_mean(name, i, v) on a tracked name, get_mean(name, i)
\* returns v rounded to float32 (v itself when float32 holds v), also when i is
\* beyond the array, which grows and keeps its old values; set_mean on an
\* unknown name changes nothing; get_mean is absent for every (name, i) not
\* written since the entry was created or last invalidated, and for unknown names.
C11_GetMeanReturnsStored ==
    [][/\ CacheStep("set_mean") /\ call'.roi \in DOMAIN data
            => WriteReadsBack(call'.roi, call'.frame, call'.value)
       /\ CacheStep("set_mean") /\ call'.roi \notin DOMAIN data => data' = data
       /\ ReadableOnlyIfWritten]_vars

\* A value float32 does not hold was written beyond the end of an array that
\* held a computed value, and read back rounded.
C11_Witness ==
    /\ call.op = "set_mean"
    /\ call.roi \in DOMAIN call.before
    /\ call.value = Inexact
    /\ call.frame >= Len(call.before[call.roi].means)
    /\ call.before[call.roi].computed # {}
    /\ get_mean(data, call.roi, call.frame) = float32(Inexact)
    /\ float32(Inexact) # Inexact

\* C12: after resize_dataset(new_total), get_all_means of every tracked name
\* returns no index >= new_total, its indices ascend, and each is paired with
\* the value that was stored (and readable) at that index before the call.
C12_ResizedSeriesInRange ==
    [][CacheStep("resize_dataset") =>
         \A r \in DOMAIN data' :
           LET frames == get_all_means(data', r)[1]
               means == get_all_means(data', r)[2]
           IN  /\ \A k \in 1..Len(frames) : frames[k] >= 0 /\ frames[k] < call'.frame
               /\ \A k \in 1..(Len(frames) - 1) : frames[k] < frames[k + 1]
               /\ Len(means) = Len(frames)
               /\ \A k \in 1..Len(frames) : means[k] = get_mean(data, r, frames[k])
               /\ {frames[k] : k \in 1..Len(frames)}
                    = {f \in data[r].computed : f < call'.frame}]_vars

\* A shrink cut off a computed frame of a name and left it another.
C12_Witness ==
    /\ call.op = "resize_dataset"
    /\ \E r \in DOMAIN call.before :
         /\ \E f \in call.before[r].computed : f >= call.frame
         /\ Len(get_all_means(data, r)[1]) >= 1

\* C13: resize_dataset(n) acts on every tracked name: total_frames becomes n,
\* growing keeps the old values and flags and adds zero cells not computed,
\* shrinking keeps exactly the values and flags of the indices below n, and a
\* second resize_dataset(n) changes nothing.
C13_ResizeAlgebra ==
    [][CacheStep("resize_dataset") =>
         LET n == call'.frame IN
         /\ DOMAIN data' = DOMAIN data
         /\ live_data' = live_data
         /\ \A r \in DOMAIN data :
              /\ data'[r].total = n
              /\ Len(data'[r].means) = n
              /\ \A j \in Cells(data'[r]) \cap Cells(data[r]) :
                   data'[r].means[j + 1] = data[r].means[j + 1]
              /\ \A j \in Cells(data'[r]) \ Cells(data[r]) :
                   data'[r].means[j + 1] = 0 /\ j \notin data'[r].computed
              /\ data'[r].computed = {f \in data[r].computed : f < n}
         /\ resize_dataset(data', n) = data']_vars

\* Two names were resized by one call, one growing and one shrinking, both
\* with computed frames.
C13_Witness ==
    /\ call.op = "resize_dataset"
    /\ \E r, x \in DOMAIN call.before :
         /\ Len(call.before[r].means) < call.frame
         /\ Len(call.before[x].means) > call.frame
         /\ call.before[r].computed # {}
         /\ data[x].computed # {}

\* C14: update_roi_geometry(name) on a tracked name empties its computed set
\* and changes nothing else (total_frames, stored values, live logs and the
\* other entries stay), after which get_mean(name, i) is absent for every i;
\* on an unknown name it changes nothing.
C14_InvalidationClearsFlagsOnly ==
    [][CacheStep("update_roi_geometry") =>
         LET r == call'.roi IN
         /\ live_data' = live_data
         /\ DOMAIN data' = DOMAIN data
         /\ \A x \in DOMAIN data \ {r} : data'[x] = data[x]
         /\ r \in DOMAIN data =>
              /\ data'[r].computed = {}
              /\ data'[r].total = data[r].total
              /\ data'[r].means = data[r].means
              /\ \A i \in Indices : get_mean(data', r, i) = None
         /\ r \notin DOMAIN data => data' = data]_vars

\* A name with a computed non-zero value and a live log was invalidated next
\* to another name with a computed value.
C14_Witness ==
    /\ call.op = "update_roi_geometry"
    /\ call.roi \in DOMAIN call.before
    /\ \E f \in call.before[call.roi].computed : data[call.roi].means[f + 1] # 0
    /\ live_data[call.roi].means # << >>
    /\ \E x \in DOMAIN data \ {call.roi} : data[x].computed # {}

\* ---- ROI geometry (SpecGeom, SpecMove)
\* The dispatch thread waits at the priority channel, both channels and the
\* pool are empty.
Quiescent ==
    /\ pc = "poll"
    /\ task_queue = << >>
    /\ priority_queue = << >>
    /\ ~Active(pool)

\* C15: a bulk job for r dispatched while r has no computed frame (as after
\* update_roi_geometry(r) with no worker for r in flight: the invalidation
\* empties the computed set and only a worker's set_mean refills it) has every
\* frame 0..total_frames-1 to compute, whatever values the cells still hold,
\* and each worker it submits is for the next of these frames.
C15_InvalidatedRoiRecomputedInFull ==
    [][/\ did' = "InvalidateRoi" => \A r \in DOMAIN data' :
                                      geometry'[r] # geometry[r] => data'[r].computed = {}
       /\ \A r \in DOMAIN data \cap DOMAIN data' :
            data[r].computed = {} /\ data'[r].computed # {} => did' = "WorkerFinish"
       /\ DequeuesBulk /\ ~DatasetMissing(dataset) /\ Head(task_queue).roi \in DOMAIN data
            => LET task == Head(task_queue)
               IN  data[task.roi].computed = {} => todo' = Sorted(0..(task.total - 1))
       /\ did' = "SubmitFrame"
            => \E w \in BagToSet(pool') :
                  /\ w.roi = cur.roi /\ w.frame = todo[ci + cj + 1] /\ w.val = None
                  /\ CopiesIn(w, pool') = CopiesIn(w, pool) + 1]_vars

\* The job dispatched after the invalidation, no worker in flight, starts with
\* every frame to compute although every cell still holds its old value.
C15_Witness ==
    /\ did = "BulkStart"
    /\ geometry[cur.roi] = 1
    /\ ~Active(pool)
    /\ cur.total = MaxFrames
    /\ todo = Sorted(0..(MaxFrames - 1))
    /\ \A f \in 0..(MaxFrames - 1) :
         data[cur.roi].means[f + 1] # 0 /\ GeometryOf(data[cur.roi].means[f + 1]) = 0

\* C16: when the geometry of a tracked ROI has changed and the engine has
\* nothing left to do, get_all_means returns no value computed with the old
\* geometry.
C16_OldGeometryNotReadable ==
    Quiescent =>
      \A r \in DOMAIN data :
        LET means == get_all_means(data, r)[2]
        IN  \A k \in 1..Len(means) : GeometryOf(means[k]) = geometry[r]

\* C17: when the geometry of an ROI was invalidated and the bulk pass that
\* followed has completed (nothing is queued or in flight any more), every
\* computed cell of the ROI holds the value for the new geometry.
C17_StaleValueCorrected ==
    Quiescent =>
      \A r \in DOMAIN data : \A f \in data[r].computed :
        GeometryOf(get_mean(data, r, f)) = geometry[r]

\* ---- the statistics window (SpecFace)
\* The jobs a step has put at the end of a channel.
Added(q, q2) == SubSeq(q2, Len(q) + 1, Len(q2))
Extends(q, q2) == Len(q2) >= Len(q) /\ SubSeq(q2, 1, Len(q)) = q

\* C18: setDataset(handle) takes the frame count from the handle (the first
\* axis of a 3-D handle, 1 for a 2-D handle, 0 for none), resizes every entry
\* to it, and puts exactly one bulk job with that count on the bulk channel for
\* each tracked ROI.
C18_SetDatasetResizesAndRequeues ==
    [][did' = "SetDataset" /\ ops'["SetDataset"] = ops["SetDataset"] + 1 =>
         LET n == CASE dataset'.ndim = 3 -> dataset'.n
                    [] dataset'.ndim = 2 -> 1
                    [] OTHER -> 0
             added == Added(task_queue, task_queue')
         IN  /\ DOMAIN data' = DOMAIN data
             /\ \A r \in DOMAIN data : data'[r].total = n /\ Len(data'[r].means) = n
             /\ Extends(task_queue, task_queue')
             /\ Len(added) = Cardinality(DOMAIN data)
             /\ \A r \in DOMAIN data : \E k \in 1..Len(added) : added[k] = BulkTask(r, n)
             /\ priority_queue' = priority_queue]_vars

\* A single image replaced a stack: both tracked ROIs were cut to one frame,
\* one of them keeping a computed value, and each got its bulk job.
C18_Witness ==
    /\ did = "SetDataset"
    /\ dataset = Still
    /\ DOMAIN data = ROIs
    /\ \A r \in ROIs : data[r].total = 1 /\ BulkTask(r, 1) \in Jobs(task_queue)
    /\ Len(task_queue) = 2
    /\ \E r \in ROIs : data[r].computed # {}

\* C19: _on_roi_added with a non-empty dataset gives the ROI an entry of the
\* dataset's frame count, one priority job for the current frame index that
\* lists it, and one bulk job; with no frames it gives an empty entry only.
C19_RegisteringEnqueuesBoth ==
    [][did' = "AddRoi" /\ ops'["AddRoi"] = ops["AddRoi"] + 1 =>
         LET r == CHOOSE x \in DOMAIN data' : x \notin DOMAIN data
             n == TotalFrames(dataset)
             added == Added(priority_queue, priority_queue')
         IN  IF n > 0
             THEN /\ data'[r] = NewEntry(n)
                  /\ task_queue' = Append(task_queue, BulkTask(r, n))
                  /\ Extends(priority_queue, priority_queue')
                  /\ Len(added) = 1
                  /\ added[1].frame = current_frame_index
                  /\ Lists(added[1], r)
             ELSE /\ data'[r] = NewEntry(0)
                  /\ task_queue' = task_queue
                  /\ priority_queue' = priority_queue]_vars

\* C20: updateCurrentFrame(frame_index, frame_data) with an ROI tracked and
\* frame data at hand returns without error and puts exactly one priority job
\* for frame_index on the priority channel, listing every tracked ROI.
C20_UpdateCurrentFrameEnqueues ==
    [][(/\ ops'["UpdateCurrentFrame"] = ops["UpdateCurrentFrame"] + 1
        /\ DOMAIN data # {}
        /\ did' # "UpdateCurrentFrameNoData")
       => LET added == Added(priority_queue, priority_queue')
          IN  /\ did' # "UpdateCurrentFrameRaised"
              /\ Extends(priority_queue, priority_queue')
              /\ Len(added) = 1
              /\ added[1].frame = current_frame_index'
              /\ added[1].roi_list = RoiList(DOMAIN data)]_vars

\* C21: a bulk job has a worker read frame i of the dataset only when
\* 0 <= i < the frame count the dataset has at that moment.
C21_BulkReadsWithinDataset ==
    [][did' = "SubmitFrame" =>
         \E w \in BagToSet(pool') :
            /\ CopiesIn(w, pool') = CopiesIn(w, pool) + 1
            /\ 0 <= w.frame /\ w.frame < TotalFrames(dataset)]_vars

\* ---- the live logs of the cache (SpecCache)
\* The entries and the logs of the names other than r are the same in the next
\* state.
OthersUnchanged(r) ==
    /\ DOMAIN data' \ {r} = DOMAIN data \ {r}
    /\ DOMAIN live_data' \ {r} = DOMAIN live_data \ {r}
    /\ \A x \in DOMAIN data \ {r} : data'[x] = data[x]
    /\ \A x \in DOMAIN live_data \ {r} : live_data'[x] = live_data[x]

\* C22: remove_roi(name) deletes the name's dataset entry and its live log
\* and leaves every other ROI as it was; a set_mean or append_live_mean that
\* arrives for the name afterwards changes nothing and does not recreate it.
C22_RemovedRoiStaysRemoved ==
    [][/\ CacheStep("remove_roi") =>
            /\ call'.roi \notin DOMAIN data'
            /\ call'.roi \notin DOMAIN live_data'
            /\ OthersUnchanged(call'.roi)
       /\ (CacheStep("set_mean") /\ call'.roi \notin DOMAIN data) =>
            /\ data' = data
            /\ live_data' = live_data
       /\ (CacheStep("append_live_mean") /\ call'.roi \notin DOMAIN live_data) =>
            /\ data' = data
            /\ live_data' = live_data
            /\ live_frame_counter' = live_frame_counter]_vars

\* a late append for a removed name, another ROI holding a log
C22_Witness ==
    /\ call.op = "append_live_mean"
    /\ call.roi \in disturbed
    /\ call.roi \notin DOMAIN data
    /\ call.roi \notin DOMAIN live_data
    /\ \E x \in DOMAIN live_data : live_data[x].means # << >> /\ data[x].computed # {}

\* What get_live_means returns for r once one more mean v is in the log.
LiveMeansWith(r, v) ==
    LET got == get_live_means(live_data, r)
        n == Len(got[2])
    IN  <<[k \in 1..(n + 1) |-> k - 1], Append(got[2], v)>>

\* clear_live_data: every log reads as empty, the counter is 0, the names stay.
ClearedKeepingNames ==
    /\ DOMAIN live_data' = DOMAIN live_data
    /\ DOMAIN data' = DOMAIN data
    /\ \A r \in DOMAIN live_data' :
          /\ get_live_means(live_data', r) = << << >>, << >> >>
          /\ live_data'[r] = NewLive
    /\ live_frame_counter' = 0

\* C23 as stated: each append_live_mean(name, v) for a tracked name extends
\* what get_live_means returns by the index n and the value v itself, so that n
\* appends since the last clear read back as [0..n-1] and [v1..vn];
\* clear_live_data empties every log, zeroes the counter and keeps the names.
C23_LiveMeansAreTheAppended ==
    [][/\ (CacheStep("append_live_mean") /\ call'.roi \in DOMAIN live_data) =>
            get_live_means(live_data', call'.roi) = LiveMeansWith(call'.roi, call'.value)
       /\ CacheStep("clear_live_data") => ClearedKeepingNames]_vars

\* C23: each append_live_mean(name, v) for a tracked name extends what
\* get_live_means returns by the index n and the value v rounded to float32;
\* clear_live_data empties every log, zeroes the counter and keeps the names,
\* and the appends after it are numbered from 0 again.
C23_LiveMeansAreTheAppendedRounded ==
    [][/\ (CacheStep("append_live_mean") /\ call'.roi \in DOMAIN live_data) =>
            get_live_means(live_data', call'.roi) =
                LiveMeansWith(call'.roi, float32(call'.value))
       /\ CacheStep("clear_live_data") => ClearedKeepingNames]_vars

\* two different means appended to one log, an inexact one first
C23_Witness ==
    /\ call.op = "append_live_mean"
    /\ call.roi \in DOMAIN live_data
    /\ live_data[call.roi].means = <<Inexact, 7>>
    /\ get_live_means(live_data, call.roi) = << <<0, 1>>, <<float32(Inexact), 7>> >>

\* the length of the longest live log
LongestLiveLog ==
    LET lens == {0} \cup {Len(live_data[r].means) : r \in DOMAIN live_data}
    IN  CHOOSE n \in lens : \A k \in lens : k <= n

\* C24: after every append_live_mean the live frame counter is the length of
\* the longest live log, and from one clear_live_data to the next the counter
\* never decreases, whichever other cache operations come between.
C24_CounterIsLongestLog ==
    [][/\ CacheStep("append_live_mean") => live_frame_counter' = LongestLiveLog'
       /\ ~CacheStep("clear_live_data") => live_frame_counter' >= live_frame_counter]_vars

\* The cache operations that may change the live log of r.
WritesLiveLog(r) ==
    \/ CacheStep("clear_live_data")
    \/ /\ call'.roi = r
       /\ \/ CacheStep("append_live_mean")
          \/ CacheStep("add_roi")
          \/ CacheStep("remove_roi")

LiveLog(live, r) == IF r \in DOMAIN live THEN live[r] ELSE NewLive

\* C25: the live log of a ROI changes only in append_live_mean, add_roi and
\* remove_roi for that name and in clear_live_data; resize_dataset, set_mean,
\* update_roi_geometry, clear_all and set_live_mode leave every log's values
\* and timestamps as they were; a log holds as many timestamps as values.
C25_LiveLogFrame ==
    [][/\ \A r \in ROIs :
            \/ WritesLiveLog(r)
            \/ /\ (r \in DOMAIN live_data') = (r \in DOMAIN live_data)
               /\ LiveLog(live_data', r) = LiveLog(live_data, r)
       /\ (\E op \in {"resize_dataset", "set_mean", "update_roi_geometry",
                       "clear_all", "set_live_mode"} : CacheStep(op)) =>
            live_data' = live_data
       /\ \A r \in DOMAIN live_data' :
            Len(live_data'[r].means) = Len(live_data'[r].timestamps)]_vars

\* clear_all found entries and logs, and the logs are still there
C25_Witness ==
    /\ call.op = "clear_all"
    /\ \E r \in DOMAIN call.before : call.before[r].computed # {}
    /\ data = << >>
    /\ live_data = call.live_before
    /\ \E r \in DOMAIN live_data :
          Len(live_data[r].means) = 2 /\ Len(live_data[r].timestamps) = 2

\* ---- live capture (SpecCapture)
\* C26: while live mode is active, the result of each priority computation
\* for a tracked ROI is appended to the live log of that ROI, and the
\* dataset-indexed entries of the cache are not written.
C26_LiveResultsGoToLiveLog ==
    [][\A w \in BagToSet(pool) :
         (/\ live_mode_active
          /\ did' = "WorkerRun"
          /\ Ran(w)
          /\ w.prio
          /\ w.roi \in DOMAIN live_data) =>
             /\ w.roi \in DOMAIN live_data'
             /\ live_data'[w.roi].means =
                    Append(live_data[w.roi].means, compute_mean_for_roi(w.roi, w.frame_data))
             /\ data' = data]_vars

\* ---- statistics of one ROI on one frame (SpecMask)
\* The whole numbers nearest to q / Scale: two of them when q / Scale lies
\* half way.
Nearest(q) == {n \in {q \div Scale, (q \div Scale) + 1} : 2 * Abs(q - Px(n)) <= Scale}

Computed == mean_value # NotComputed
OnFrame == frame_arg.ndim = 2 /\ frame_arg.height * frame_arg.width > 0
InFrame(x, y) == 0 <= x /\ x < frame_arg.width /\ 0 <= y /\ y < frame_arg.height

\* A position every nearest pixel of which is off the frame.
OutOfBounds ==
    /\ OnFrame
    /\ \/ /\ roi_arg.kind \in {"Point", "Cross"}
          /\ \A x \in Nearest(roi_arg.x), y \in Nearest(roi_arg.y) : ~InFrame(x, y)
       \/ /\ roi_arg.kind = "HorizontalLine"
          /\ \A y \in Nearest(roi_arg.y) : ~InFrame(0, y)
       \/ /\ roi_arg.kind = "VerticalLine"
          /\ \A x \in Nearest(roi_arg.x) : ~InFrame(x, 0)

Degenerate ==
    \/ frame_arg \in {NoArray, EmptyArray}
    \/ OutOfBounds
    \/ roi_arg.kind = "Circle" /\ roi_arg.a <= 0
    \/ roi_arg.kind = "Ellipse" /\ (roi_arg.a <= 0 \/ roi_arg.b <= 0)
    \/ roi_arg.kind = "Polygon" /\ Len(roi_arg.points) < 3
    \/ roi_arg.kind = "Text"

\* C27: compute_mean_for_roi never raises, so that the worker running it
\* emits a result and no error; for a position out of bounds, a radius of zero
\* or less, a polygon of fewer than 3 points, a kind of ROI it does not know and
\* an empty or missing frame it returns 0.0.
C27_NeverRaisesZeroWhenDegenerate ==
    Computed =>
        /\ ~mean_value.exc
        /\ did = "WorkerRun"
        /\ emitted = <<currentFrameReady("A", mean_value)>>
        /\ Degenerate => mean_value = Zero

\* The pixels of the frame inside the half-open rectangle.
InRectangle ==
    {p \in Grid(frame_arg.height, frame_arg.width) :
        /\ roi_arg.x <= Px(p[1]) /\ Px(p[1]) < roi_arg.x + roi_arg.a
        /\ roi_arg.y <= Px(p[2]) /\ Px(p[2]) < roi_arg.y + roi_arg.b}

\* C28: a pixel (x, y) is in the mask of a Rectangle ROI iff
\* x0 <= x < x0 + w and y0 <= y < y0 + h; with origin (0,0) and size (3,3)
\* pixel (2,2) is in and (3,3) is out; the statistic is the mean of the frame
\* over those pixels, 0.0 when there is none.
C28_RectangleHalfOpen ==
    (Computed /\ OnFrame /\ roi_arg.kind = "Rectangle") =>
        /\ create_rectangle_mask(roi_arg, frame_arg.height, frame_arg.width) = InRectangle
        /\ mean_value = IF InRectangle = {} THEN Zero ELSE MeanOver(frame_arg, InRectangle)
        /\ (roi_arg = Roi("Rectangle", 0, 0, Px(3), Px(3), << >>) /\ frame_arg = Frame) =>
              /\ <<2, 2>> \in create_rectangle_mask(roi_arg, FrameSide, FrameSide)
              /\ <<3, 3>> \notin create_rectangle_mask(roi_arg, FrameSide, FrameSide)

\* the rectangle at (0,0) of size (3,3) on the square frame: the mean of 9 pixels
C28_Witness ==
    /\ roi_arg = Roi("Rectangle", 0, 0, Px(3), Px(3), << >>)
    /\ frame_arg = Frame
    /\ Cardinality(InRectangle) = 9
    /\ mean_value = Value(2 + FrameSide, 1)

\* The squared distance of pixel p from the centre, in 1/Scale pixels.
DistSq(p) ==
    (Px(p[1]) - roi_arg.x) * (Px(p[1]) - roi_arg.x)
        + (Px(p[2]) - roi_arg.y) * (Px(p[2]) - roi_arg.y)

InDisk == {p \in Grid(frame_arg.height, frame_arg.width) : DistSq(p) <= roi_arg.a * roi_arg.a}

\* C29: a pixel is in the mask of a Circle ROI of radius r > 0 iff its squared
\* distance from the centre is at most r^2; with centre (5,5) and radius 2 the
\* pixels at squared distance <= 4 are in and the others out; a radius of zero
\* or less gives an empty mask and the statistic 0.0.
C29_CircleClosedDisk ==
    (Computed /\ OnFrame /\ roi_arg.kind = "Circle") =>
        LET mask == create_circle_mask(roi_arg, frame_arg.height, frame_arg.width)
        IN  /\ roi_arg.a > 0 =>
                 /\ mask = InDisk
                 /\ mean_value = IF InDisk = {} THEN Zero ELSE MeanOver(frame_arg, InDisk)
            /\ roi_arg.a <= 0 => mask = {} /\ mean_value = Zero
            /\ (roi_arg = Roi("Circle", Px(5), Px(5), Px(2), 0, << >>) /\ frame_arg = Frame) =>
                 \A p \in Grid(FrameSide, FrameSide) :
                    p \in mask <=> DistSq(p) <= 4 * Scale * Scale

\* the circle at (5,5) of radius 2 on the square frame: 13 pixels, (7,5) on
\* the boundary among them
C29_Witness ==
    /\ roi_arg = Roi("Circle", Px(5), Px(5), Px(2), 0, << >>)
    /\ frame_arg = Frame
    /\ Cardinality(InDisk) = 13
    /\ <<7, 5>> \in InDisk /\ <<7, 6>> \notin InDisk
    /\ mean_value = Value(Pixel(Frame, 5, 5), 1)

\* C30: for a Point or Cross ROI at (x, y) the statistic is the frame's value
\* at the pixel nearest to (x, y), and 0.0 when that pixel is off the frame,
\* without wrapping round and without clamping, for fractional and negative
\* positions too; a Point at (50,50) on a 10x10 frame gives 0.0.
C30_PointSamplesNearestPixel ==
    (Computed /\ OnFrame /\ roi_arg.kind \in {"Point", "Cross"}) =>
        \E x \in Nearest(roi_arg.x), y \in Nearest(roi_arg.y) :
            mean_value = IF InFrame(x, y) THEN Value(Pixel(frame_arg, x, y), 1) ELSE Zero

\* ---- chunks of a bulk job (Spec)
\* The signals of one kind among those a step emits.
Emits(sig) == \E k \in 1..Len(emitted') : emitted'[k].sig = sig

\* C31: within one dispatch of a bulk job a frame is submitted only after every
\* frame of the chunks before it, all of smaller index; the progress signal of a
\* chunk is emitted, and the loop goes on to the next chunk, only from the wait
\* for the pool, when the pool is idle or the bounded wait has expired; an
\* expired wait emits no error.
C31_ChunksInOrderProgressAfterWait ==
    [][/\ did' = "SubmitFrame" =>
            \E w \in BagToSet(pool') :
               /\ CopiesIn(w, pool') = CopiesIn(w, pool) + 1
               /\ w.frame = todo[ci + cj + 1]
               /\ \A k \in 1..ci : todo[k] < w.frame
               /\ ci % ChunkSize = 0 /\ cj < ChunkSize
       /\ Emits("bulkProgressUpdated") =>
            /\ pc = "wait" /\ pc' = "chunk_run"
            /\ ci' = ci + ChunkSize
            /\ did' = IF Active(pool) THEN "ProgressTimedOut" ELSE "Progress"
            /\ ~Emits("errorOccurred")
       /\ (pc' = "submit" /\ pc # "submit" /\ ci > 0) =>
            /\ pc = "chunk_prio"
            /\ cj' = 0
       /\ (pc' = "chunk_run" /\ pc \in {"wait", "submit"}) => Emits("bulkProgressUpdated")]_vars

\* a frame of the second chunk is submitted while a worker of the first chunk,
\* which the wait gave up on, is still in the pool
C31_Witness ==
    /\ did = "SubmitFrame"
    /\ ci = ChunkSize
    /\ \E w \in BagToSet(pool) : ~w.prio /\ w.frame = todo[1]
    /\ \E w \in BagToSet(pool) : ~w.prio /\ w.frame = todo[ci + 1] /\ w.frame > todo[ci]

\* The dispatch thread takes the job at the head of the bulk channel.
TakesBulk == pc = "get_bulk" /\ pc' # "get_bulk" /\ task_queue # << >>

\* Every frame of the job is in computed_frames of its ROI.
AllComputed(task) ==
    /\ task.roi \in DOMAIN data
    /\ \A f \in 0..(task.total - 1) : f \in data[task.roi].computed

\* The job ends at once with the completion signal.
CompletesAtOnce(task) ==
    /\ emitted' = <<bulkAnalysisComplete(task.roi)>>
    /\ pool' = pool
    /\ task_queue' = Tail(task_queue)
    /\ data' = data
    /\ pc' = "poll"

\* C32 as stated: a bulk job dispatched for an ROI whose frames 0..total-1 are
\* all computed emits the completion signal at once, submits no worker, emits
\* no progress, is not put back and leaves the cache as it is.
C32_CompleteJobEndsAtOnce ==
    [][(TakesBulk /\ AllComputed(Head(task_queue))) =>
          CompletesAtOnce(Head(task_queue))]_vars

\* C32: the same for a job dispatched while the engine has a dataset; without
\* one the job ends with the error signal.
C32_CompleteJobEndsAtOnceWithDataset ==
    [][(TakesBulk /\ AllComputed(Head(task_queue))) =>
          IF DatasetMissing(dataset)
          THEN /\ emitted' = <<errorOccurred(Head(task_queue).roi)>>
               /\ pool' = pool /\ data' = data
               /\ task_queue' = Tail(task_queue)
          ELSE CompletesAtOnce(Head(task_queue))]_vars

\* a job of MaxFrames frames found complete when it is taken
C32_Witness ==
    /\ did = "BulkAlreadyComplete"
    /\ cur.total = MaxFrames
    /\ AllComputed(cur)
    /\ emitted = <<bulkAnalysisComplete(cur.roi)>>
    /\ pool = EmptyBag

\* ---- lines (SpecMask)
\* The points _bresenham_line gives for the line ROI at hand.
LinePoints == bresenham_line(int(roi_arg.x), int(roi_arg.y), int(roi_arg.a), int(roi_arg.b))

\* Those of them on the frame.
LinePointsInside ==
    SelectSeq(LinePoints.coords, LAMBDA p : InFrame(p[1], p[2]))

\* C33: for integer end points the rasterizer returns, and its points start at
\* (x0, y0), end at (x1, y1), number max(|x1 - x0|, |y1 - y0|) + 1 and move
\* each coordinate by at most 1 from one to the next; the statistic of a Line
\* ROI is the mean over the points on the frame, 0.0 when there is none.
C33_BresenhamLine ==
    roi_arg.kind = "Line" =>
        LET x0 == int(roi_arg.x)
            y0 == int(roi_arg.y)
            x1 == int(roi_arg.a)
            y1 == int(roi_arg.b)
            coords == LinePoints.coords
            longer == IF Abs(x1 - x0) >= Abs(y1 - y0) THEN Abs(x1 - x0) ELSE Abs(y1 - y0)
        IN  /\ LinePoints.returns
            /\ coords[1] = <<x0, y0>>
            /\ coords[Len(coords)] = <<x1, y1>>
            /\ Len(coords) = longer + 1
            /\ \A k \in 1..(Len(coords) - 1) :
                  /\ Abs(coords[k + 1][1] - coords[k][1]) <= 1
                  /\ Abs(coords[k + 1][2] - coords[k][2]) <= 1
            /\ (Computed /\ OnFrame) =>
                  mean_value = IF LinePointsInside = << >> THEN Zero
                               ELSE Fraction(SumValues(frame_arg, LinePointsInside),
                                             Len(LinePointsInside))

\* a slanted line that leaves the 2x3 frame: some of its points count, some
\* do not
C33_Witness ==
    /\ Computed
    /\ roi_arg = Roi("Line", Px(-1), 0, Px(MaxEndpoint), Px(1), << >>)
    /\ frame_arg = Wide
    /\ Len(LinePoints.coords) = MaxEndpoint + 2
    /\ Len(LinePointsInside) = 3
    /\ mean_value # Zero

\* C34: in every state of the cache, whatever add_roi, set_mean (frame index
\* >= 0), resize_dataset, update_roi_geometry and remove_roi calls led to it,
\* every tracked ROI has len(means) = total_frames and every index of
\* computed_frames within 0..total_frames-1, so get_progress never reports more
\* frames done than the total.
C34_ArrayMatchesTotal ==
    \A r \in DOMAIN data :
        /\ Len(data[r].means) = data[r].total
        /\ \A f \in data[r].computed : 0 <= f /\ f < data[r].total
        /\ get_progress(data, r)[1] <= get_progress(data, r)[2]

\* A resize that cut computed frames off an array a set_mean had grown before.
C34_Witness ==
    /\ call.op = "resize_dataset"
    /\ \E r \in DOMAIN data :
          /\ r \in DOMAIN call.before
          /\ \E f \in call.before[r].computed : f >= call.frame
          /\ call.before[r].total = MaxIndex + 1
          /\ data[r].computed # {}
          /\ data[r].total = call.frame

\* The priority workers started and not yet completed.
PriorityInFlight ==
    LET ws == {w \in BagToSet(pool) : w.prio}
    IN  BagCardinality([w \in ws |-> CopiesIn(w, pool)])

\* C35: the pending-worker counter always equals the number of priority
\* workers submitted and not yet completed: it is never negative and is 0 when
\* none is in flight, also when a second priority job is dispatched before the
\* workers of the first have finished.
C35_PendingCountsPriorityWorkers == pending = PriorityInFlight

\* The counter is never negative.
C35_PendingNeverNegative == pending >= 0

\* Worker w completes in this step.
WorkerCompletes(w) ==
    /\ did' \in {"WorkerRun", "WorkerFailed"}
    /\ CopiesIn(w, pool') < CopiesIn(w, pool)

\* Bulk worker w read its frame from another dataset than the one in use: it
\* was submitted before the setDataset that resized the cache to
\* TotalFrames(dataset).
SubmittedBeforeResize(w) ==
    /\ ~w.prio
    /\ w.frame_data[1] # dataset.id
    /\ w.roi \in DOMAIN data
    /\ data[w.roi].total = TotalFrames(dataset)

\* C36: once resize_dataset(new_total) has shrunk the cache, a worker that was
\* submitted before the resize and completes after it makes no frame index
\* >= new_total appear in get_all_means and does not raise total_frames above
\* new_total.
C36_LateWorkerKeepsShrunkCache ==
    [][\A w \in BagToSet(pool) :
          (WorkerCompletes(w) /\ SubmittedBeforeResize(w)) =>
              /\ data'[w.roi].total <= TotalFrames(dataset)
              /\ \A k \in 1..Len(get_all_means(data', w.roi)[1]) :
                    get_all_means(data', w.roi)[1][k] < TotalFrames(dataset)]_vars

\* C37: once set_dataset(D2) has replaced D1 and the bulk jobs enqueued for D2
\* have completed, no worker in flight, every cell reported computed holds the
\* statistic of D2's frame of that index: no value computed from D1 is still
\* marked computed, also when D2 has as many frames as D1 or more.
C37_ComputedCellsAreOfDataset ==
    (Quiescent /\ dataset # NoDataset) =>
        \A r \in DOMAIN data : \A f \in data[r].computed :
            /\ FrameData(dataset, f) # NoFrame
            /\ data[r].means[f + 1]
                 = float32(compute_mean_for_roi(r, FrameData(dataset, f)))

\* C38: from pause() until resume() the scheduler submits no bulk worker, not
\* even for a bulk job it has already dequeued and is part-way through.
C38_NoBulkWorkerWhilePaused ==
    [][did' = "SubmitFrame" => ~paused]_vars

\* The dispatch of a bulk job for r has just ended with its completion or its
\* error signal.
BulkEnds(r) ==
    /\ did \in {"BulkComplete", "BulkAlreadyComplete", "BulkNoDataset"}
    /\ emitted \in {<<bulkAnalysisComplete(r)>>, <<errorOccurred(r)>>}

\* C39: with the scheduler running and not paused, and priority jobs that
\* eventually stop arriving, every bulk job on the bulk channel eventually ends
\* with its completion or error signal; it is not put back for ever, the
\* channel ends up empty for good, and the wait for the pool does not hold the
\* dispatch loop: it always goes on to the next chunk.
C39_EveryBulkJobEnds ==
    /\ \A r \in ROIs :
           (\E k \in 1..Len(task_queue) : task_queue[k].roi = r) ~> BulkEnds(r)
    /\ (pc = "wait") ~> (pc = "chunk_run")
    /\ <>[](task_queue = << >> /\ pc \in {"poll", "get_bulk"})

\* A job that had yielded to a priority job ends with its completion signal,
\* the wait for its last chunk having expired with a worker still in the pool.
C39_Witness ==
    /\ BulkEnds(cur.roi)
    /\ did = "BulkComplete"
    /\ cur.total = MaxFrames
    /\ Len(todo) < MaxFrames
    /\ task_queue = << >>
    /\ \E w \in BagToSet(pool) : ~w.prio

\* C40: in every state of the cache the names with a dataset-mode entry are
\* the names with a live-mode entry, whatever add_roi, remove_roi, clear_all,
\* clear_live_data, resize_dataset and update_roi_geometry calls led to it.
C40_SameNamesInBothStores == DOMAIN data = DOMAIN live_data

============================================================================
